---- MODULE Spec2Model ----
(***************************************************************************)
(* Single-link raw data decoding of the ITS/MFT GBT links:                 *)
(* GBTLink::cacheData and GBTLink::collectROFCableData (GBTLink.h).        *)
(*                                                                         *)
(* A CRU page is an RDH followed by GBT words of wordLength bytes and, for *)
(* words without padding, 0xff bytes filling the page to the CRU page      *)
(* alignment.  Offsets are byte offsets, as in the code.  A read that takes *)
(* bytes from after the end of the current page yields bytes the page does *)
(* not determine: such a read takes its word from `oob`, the memory that   *)
(* happens to follow, or ends the process.                                 *)
(***************************************************************************)
EXTENDS Integers, Sequences, FiniteSets, TLC

VARIABLES link, ru, ret, last, callerIR, linkOne, ruOne, retOne, job

vars == <<link, ru, ret, last, callerIR, linkOne, ruOne, retOne, job>>

-----------------------------------------------------------------------------
(* Bounds of the model *)

\* pages cached on one link in one behaviour
MaxPages == 2
\* words the memory following a page is explored for, per call
MaxOOB == 1
\* Data words of a synthetic well-formed packet
MaxData == 2

-----------------------------------------------------------------------------
(* Program constants *)

CRUPageAlignment == 16
GBTPaddedWordLength == 16
GBTWordLength == 10
RDHSize == 64
\* cables of the readout unit type served in the model
NCables == 2
\* software cable index returned for an unknown hardware cable
NoCable == 255

\* GBTLink::CollectedDataStatus
None == "None"
AbortedOnError == "AbortedOnError"
StoppedOnEndOfData == "StoppedOnEndOfData"
DataSeen == "DataSeen"
Recovery == "Recovery"
CachedDataExist == "CachedDataExist"
CollectedDataStatus == {None, AbortedOnError, StoppedOnEndOfData, DataSeen, Recovery, CachedDataExist}
\* the process did not survive the call (read outside the mapped memory)
Crashed == "Crashed"
\* the call never returns: the page loop is back at a cursor it left before
Hung == "Hung"

\* GBTLink::ErrorType, a bit mask: modelled as the set of the bits that are set
NoError == {}
Warning == {"Warning"}
Skip == {"Skip"}
Abort == {"Abort"}
ErrorPrinted == {"ErrorPrinted"}

\* GBTLink::Verbosity
Silent == -1
VerboseErrors == 0
VerboseHeaders == 1
VerboseData == 2
VerboseRawDump == 3

\* error kinds counted in GBTLinkDecodingStat::errorCounts
ErrKinds == {"ErrNoRDHAtStart", "ErrPageNotStopped", "ErrMissingGBTHeader",
             "ErrInvalidActiveLanes", "ErrMissingGBTTrigger", "ErrGBTWordNotRecognized",
             "ErrWrongeCableID", "ErrPacketDoneMissing", "ErrMissingDiagnosticWord",
             "ErrMissingGBTTrailer"}

\* o2::InteractionRecord: the dummy record set by clear().  Its orbit, 0xffffffff,
\* is written -1 (the model's integers are 32-bit signed) and ordered as the largest.
IRDummy == [bc |-> 65535, orbit |-> -1]
IRisDummy(x) == x = IRDummy
OrbitOrd(o) == IF o = -1 THEN 2147483647 ELSE o
IRAhead(a, b) ==
    OrbitOrd(a.orbit) > OrbitOrd(b.orbit) \/ (a.orbit = b.orbit /\ a.bc > b.bc)

-----------------------------------------------------------------------------
(* GBT words.  k is the word's kind as the flag byte (byte 9) gives it:     *)
(* H header, T trigger, C calibration, D data, TR trailer, DG diagnostic,  *)
(* X no recognised flag, PAD a word of 0xff bytes.  ff: byte 0 is 0xff.    *)

W0 == [k |-> "X", ff |-> FALSE, lanes |-> {}, cable |-> 0, pl |-> 0,
       noData |-> FALSE, internal |-> FALSE, cont |-> FALSE, bc |-> 0, orbit |-> 0, tt |-> 0,
       pdone |-> FALSE, tmo |-> FALSE, stops |-> {}, louts |-> {}, cc |-> 0]

WHeader(lanes) == [W0 EXCEPT !.k = "H", !.lanes = lanes]
WTrigger(noData, internal, cont, bc, orbit) ==
    [W0 EXCEPT !.k = "T", !.noData = noData, !.internal = internal, !.cont = cont,
               !.bc = bc, !.orbit = orbit, !.tt = 1]
WCalib(cc) == [W0 EXCEPT !.k = "C", !.cc = cc]
WData(cable, pl) == [W0 EXCEPT !.k = "D", !.cable = cable, !.pl = pl]
WTrailer(pdone, stops) == [W0 EXCEPT !.k = "TR", !.pdone = pdone, !.stops = stops]
WDiag == [W0 EXCEPT !.k = "DG"]
WUnknown == W0
PadWord == [W0 EXCEPT !.k = "PAD", !.ff = TRUE]
\* what a read outside the mapped memory gives
CrashWord == [W0 EXCEPT !.k = "CRASH"]

isDataHeader(w) == w.k = "H"
isTriggerWord(w) == w.k = "T"
isCalibrationWord(w) == w.k = "C"
isData(w) == w.k = "D"
isDataTrailer(w) == w.k = "TR"
isDiagnosticWord(w) == w.k = "DG"
\* GBTDataTrailer::getPacketState: the trailer's state bits
getPacketState(w) == (IF w.pdone THEN 1 ELSE 0) + (IF w.tmo THEN 2 ELSE 0)
PacketStates == 0..3

\* ChannelMap: hardware cable ids 1 and 2 are cables 0 and 1 of the unit
cableHW2SW(cableHW) == IF cableHW = 1 THEN 0 ELSE IF cableHW = 2 THEN 1 ELSE NoCable
getCablesOnRUType == NCables

-----------------------------------------------------------------------------
(* CRU pages *)

\* the RDH fields the decoder reads
RDH(ok, stop, pageCnt, orbit) == [ok |-> ok, stop |-> stop, pageCnt |-> pageCnt, orbit |-> orbit]
Page(rdh, words) == [rdh |-> rdh, words |-> words]

RoundUp(n, a) == ((n + a - 1) \div a) * a
\* RDHUtils::getMemorySize: the page's bytes, which is also the size cacheData is given
PageSize(p, padded) ==
    IF padded THEN RDHSize + GBTPaddedWordLength * Len(p.words)
    ELSE RoundUp(RDHSize + GBTWordLength * Len(p.words), CRUPageAlignment)

-----------------------------------------------------------------------------
(* State of one link and of its readout unit *)

\* GBTLink as constructed; the two decoding options are set once, at setup
NewLink(expectPadding, alwaysParseTrigger) ==
    [status |-> None,
     verbosity |-> VerboseErrors,
     extTrigVec |-> <<>>,
     collectsExtTrig |-> TRUE,
     idInRU |-> 0,
     wordLength |-> IF expectPadding THEN GBTPaddedWordLength ELSE GBTWordLength,
     alwaysParseTrigger |-> alwaysParseTrigger,
     expectPadding |-> expectPadding,
     rofJumpWasSeen |-> FALSE,
     lanesActive |-> {}, lanesStop |-> {}, lanesTimeOut |-> {}, lanesWithData |-> {},
     trigger |-> 0,
     hbfEntry |-> 0,
     lastRDH |-> <<>>,
     lastPageSize |-> 0,
     ir |-> IRDummy,
     irHBF |-> IRDummy,
     statistics |-> [nPackets |-> 0, nTriggers |-> 0,
                     errorCounts |-> [e \in ErrKinds |-> 0],
                     packetStates |-> [s \in PacketStates |-> 0]],
     rawData |-> [pieces |-> <<>>, cur |-> 0],
     dataOffset |-> 0]

\* RUDecodeData: the cable buffers and what the decoder records next to them.
\* A cable buffer is the sequence of the 9-byte chunks added to it.
\* corrupt: something was written outside the cable arrays.
NewRU ==
    [cableData |-> [c \in 0..(NCables - 1) |-> <<>>],
     cableHWID |-> [c \in 0..(NCables - 1) |-> NoCable],
     cableLinkID |-> [c \in 0..(NCables - 1) |-> NoCable],
     cableLinkPtr |-> [c \in 0..(NCables - 1) |-> FALSE],
     calibData |-> <<0>>,
     linkHBFToDump |-> {},
     corrupt |-> FALSE]

-----------------------------------------------------------------------------
(* PayLoadSG: the scatter-gather list of the cached pages *)

SGadd(sg, p) == [sg EXCEPT !.pieces = Append(@, p)]
SGhasCurrent(sg) == sg.cur < Len(sg.pieces)
SGcurrentPiece(sg) == sg.pieces[sg.cur + 1]
SGnextPiece(sg) == [sg EXCEPT !.cur = @ + 1]
SGsetDone(sg) == [sg EXCEPT !.cur = Len(sg.pieces)]
SGcurrentPieceID(sg) == sg.cur

\* GBTLink::cacheData
cacheData(l, p) == [l EXCEPT !.rawData = SGadd(@, p)]

\* variant: the abort leaves the page list open
discardNothing(l) == l

\* GBTLink::discardData
discardData(l) == [l EXCEPT !.rawData = SGsetDone(@)]

\* GBTLink::clear: the cached pages and the cursor into them are discarded, and
\* the statistics on request; the other fields of the link are left as they are
NewStatistics == NewLink(TRUE, FALSE).statistics
clear(l, resetStat, resetTFRaw) ==
    [l EXCEPT !.rawData = IF resetTFRaw THEN [pieces |-> <<>>, cur |-> 0] ELSE @,
              !.dataOffset = IF resetTFRaw THEN 0 ELSE @,
              !.hbfEntry = 0,
              !.lastRDH = <<>>,
              !.lastPageSize = 0,
              !.statistics = IF resetStat THEN NewStatistics ELSE @]

\* variant: an error kind is reported on every occurrence
needToPrintEvery(verbosity, count) ==
    IF verbosity = Silent THEN FALSE ELSE (verbosity > VerboseErrors \/ count >= 1)

\* GBTLink::needToPrintError
needToPrintError(verbosity, count) ==
    IF verbosity = Silent THEN FALSE ELSE (verbosity > VerboseErrors \/ count = 1)

-----------------------------------------------------------------------------
(* The checkErrors... methods: each returns the link as it leaves it and   *)
(* the ErrorType bits of its result.                                       *)

Passed(l) == [l |-> l, err |-> NoError]
Failed(l, kind, severity) ==
    LET c == l.statistics.errorCounts[kind] + 1
    IN  [l |-> [l EXCEPT !.statistics.errorCounts[kind] = c],
         err |-> severity \cup (IF needToPrintError(l.verbosity, c) THEN ErrorPrinted ELSE {})]

\* the page must start with a valid RDH
checkErrorsRDH(l, rdh) ==
    IF ~rdh.ok THEN Failed(l, "ErrNoRDHAtStart", Abort) ELSE Passed(l)

\* if a new HBF starts, the last RDH must have had the stop
checkErrorsRDHStop(l, rdh) ==
    IF l.lastRDH # <<>> /\ l.lastRDH[1].orbit # rdh.orbit /\ ~l.lastRDH[1].stop
    THEN Failed(l, "ErrPageNotStopped", Warning) ELSE Passed(l)

\* only a diagnostic word, and nothing else, may follow the RDH with the stop
checkErrorsDiagnosticWord(l, w, memorySize) ==
    IF memorySize # RDHSize + l.wordLength \/ ~isDiagnosticWord(w)
    THEN Failed(l, "ErrMissingDiagnosticWord", Abort) ELSE Passed(l)

\* the payload must start with the GBT header
checkErrorsHeaderWord(l, w) ==
    IF ~isDataHeader(w) THEN Failed(l, "ErrMissingGBTHeader", Abort) ELSE Passed(l)

\* the number of active lanes must be that of the cables of the unit type
checkErrorsActiveLanes(l, cables) ==
    IF Cardinality(l.lanesActive) # cables
    THEN Failed(l, "ErrInvalidActiveLanes", Warning) ELSE Passed(l)

\* a trigger must have given the interaction record
checkErrorsIRNotExtracted(l) ==
    IF IRisDummy(l.ir) THEN Failed(l, "ErrMissingGBTTrigger", Abort) ELSE Passed(l)

\* the word must be a data word
checkErrorsGBTDataID(l, w) ==
    IF isData(w) THEN Passed(l) ELSE Failed(l, "ErrGBTWordNotRecognized", Skip)

\* the cable must be one of the unit
checkErrorsCableID(l, w, cableSW) ==
    IF cableSW = NoCable THEN Failed(l, "ErrWrongeCableID", Skip) ELSE Passed(l)

\* the trailer's lane bits are taken over
checkErrorsTrailerWord(l, w) ==
    IF ~isDataTrailer(w) THEN Failed(l, "ErrMissingGBTTrailer", Abort)
    ELSE Passed([l EXCEPT !.lanesTimeOut = @ \cup w.louts, !.lanesStop = @ \cup w.stops])

\* the input ended and no trailer with packet done was seen
checkErrorsPacketDoneMissing(l, noTrailer, notEnd) ==
    IF noTrailer THEN Failed(l, "ErrPacketDoneMissing", Warning) ELSE Passed(l)

-----------------------------------------------------------------------------
(* Reading the current page *)

Running == "Running"
\* hbfEntry while the RDH is not yet validated: dump the full TF
HBFEntryAll == -1

PieceSize(l) == PageSize(SGcurrentPiece(l.rawData), l.expectPadding)
WordsEnd(l) == RDHSize + l.wordLength * Len(SGcurrentPiece(l.rawData).words)
\* the offset is the start of one of the page's words
InWords(l) ==
    /\ l.dataOffset >= RDHSize
    /\ l.dataOffset < WordsEnd(l)
    /\ (l.dataOffset - RDHSize) % l.wordLength = 0
\* the offset is in the 0xff filler and a whole word read there stays in the page
InFiller(l) == l.dataOffset >= WordsEnd(l) /\ l.dataOffset + GBTWordLength <= PieceSize(l)
\* the read takes bytes from outside the page
FromOutside(l) == l.dataOffset + GBTWordLength > PieceSize(l)

\* the GBT word the code sees at dataOffset; n words of oob were read before.
\* A read inside the page that straddles two of its words sees payload bytes where
\* the flag is expected: no recognised word (the payloads hold no flag values).
WordAt(l, oob, n) ==
    IF InWords(l) THEN SGcurrentPiece(l.rawData).words[((l.dataOffset - RDHSize) \div l.wordLength) + 1]
    ELSE IF InFiller(l) THEN PadWord
    ELSE IF ~FromOutside(l) THEN WUnknown
    ELSE IF l.dataOffset >= WordsEnd(l) /\ l.dataOffset < PieceSize(l)
    THEN [(IF n < Len(oob) THEN oob[n + 1] ELSE CrashWord) EXCEPT !.ff = TRUE]  \* byte 0 is filler
    ELSE IF n < Len(oob) THEN oob[n + 1] ELSE CrashWord

\* GBTLink::isAlignmentPadding, w the word at dataOffset
isAlignmentPadding(l, w) ==
    IF (~l.expectPadding) /\ w.ff /\ (l.dataOffset + CRUPageAlignment >= l.lastPageSize)
    THEN ~((l.dataOffset + GBTWordLength <= l.lastPageSize) /\ w.k # "PAD")
    ELSE FALSE

-----------------------------------------------------------------------------
(* collectROFCableData.  st is the call in progress: the link, the readout *)
(* unit, the locals errRes and expectPacketDone, the words of oob read so  *)
(* far, the words interpreted so far (reads, each with its page, offset    *)
(* and the role it was read in), the number of words that had been         *)
(* interpreted when a check first gave Abort (abortAt, -1: none), and ret: *)
(* Running, or what the call returned.                                     *)

NewCall(l, r) ==
    [l |-> l, r |-> r, errRes |-> NoError, expectPacketDone |-> FALSE, nOOB |-> 0,
     reads |-> <<>>, abortAt |-> -1, ret |-> Running, seen |-> {}]

Return(st, status) == [st EXCEPT !.l.status = status, !.ret = status]
Crash(st) == [st EXCEPT !.ret = Crashed]
Hang(st) == [st EXCEPT !.ret = Hung]
\* the page and the offset of the cursor
Cursor(l) == <<l.rawData.cur, l.dataOffset>>

Consumed(st, w, role) ==
    [st EXCEPT !.reads = Append(@, [pi |-> st.l.rawData.cur, off |-> st.l.dataOffset,
                                    w |-> w, role |-> role])]

\* dataOffset += wordLength, after the word at dataOffset was read
Advance(st) ==
    [st EXCEPT !.l.dataOffset = @ + st.l.wordLength,
               !.nOOB = IF FromOutside(st.l) THEN @ + 1 ELSE @]

\* variant: the Abort bit is never seen
AbortBitIgnored(errRes) == FALSE

\* variant: every bit of the result ends the call
AbortOnAnyBit(errRes) == errRes # NoError

\* (errRes) & uint8_t(Abort)
AbortBitSet(errRes) == Abort \subseteq errRes

\* GBTLINK_DECODE_ERRORCHECK(errRes, errEval); res is what errEval returned
ErrorCheck(st, res) ==
    LET printed == ErrorPrinted \subseteq res.err
        errRes == res.err \ ErrorPrinted
        r1 == IF printed
              THEN [st.r EXCEPT !.linkHBFToDump =
                        {e \in @ : e[1] # res.l.hbfEntry} \cup {<<res.l.hbfEntry, res.l.irHBF.orbit>>}]
              ELSE st.r
        st1 == [st EXCEPT !.l = res.l, !.r = r1, !.errRes = errRes,
                          !.abortAt = IF @ = -1 /\ Abort \subseteq res.err THEN Len(st.reads) ELSE @]
    IN  IF AbortBitSet(errRes)
        THEN Return([st1 EXCEPT !.l = discardData(@)], AbortedOnError)
        ELSE st1

IsRunning(st) == st.ret = Running

\* variant: the entry does not look at rofJumpWasSeen
EntryIgnoresJump(l) == FALSE

\* if (rofJumpWasSeen): the link has unused data due to the ROF/HBF jump
EntryCachedData(l) == l.rofJumpWasSeen

(* The page starts with the RDH: `if (!dataOffset)` *)

CurRDH(l) == SGcurrentPiece(l.rawData).rdh

\* make sure we are dealing with an RDH; in case of problems dump the full TF
RDHValidate(st) ==
    ErrorCheck(st, checkErrorsRDH([st.l EXCEPT !.hbfEntry = HBFEntryAll], CurRDH(st.l)))

\* critical check of the RDH passed
RDHAccept(l, hbfEntrySav) ==
    LET newHBF == CurRDH(l).pageCnt = 0 \/ IRisDummy(l.irHBF)
    IN  [l EXCEPT !.hbfEntry = IF newHBF THEN SGcurrentPieceID(l.rawData) ELSE hbfEntrySav,
                  !.lastRDH = <<CurRDH(l)>>,
                  !.statistics.nPackets = @ + 1,
                  !.irHBF = IF newHBF THEN [bc |-> 0, orbit |-> CurRDH(l).orbit] ELSE @]

RDHStopCheck(st) == ErrorCheck(st, checkErrorsRDHStop(st.l, CurRDH(st.l)))

\* dataOffset += sizeof(RDH); lastPageSize = getMemorySize(rdh)
RDHSkip(st) == [st EXCEPT !.l.dataOffset = @ + RDHSize, !.l.lastPageSize = PieceSize(st.l)]

\* only the diagnostic word can be present after the stop
DiagWord(st, w) ==
    ErrorCheck(Consumed(st, w, "diag"), checkErrorsDiagnosticWord(st.l, w, PieceSize(st.l)))

\* dataOffset += getOffsetToNext(rdh) - sizeof(RDH)
ToNextPage(st) ==
    IF IsRunning(st) THEN [st EXCEPT !.l.dataOffset = @ + (PieceSize(st.l) - RDHSize)] ELSE st

\* lanesActive = gbtH->activeLanes, then the check of the active lanes
LanesCheck(st) == ErrorCheck(st, checkErrorsActiveLanes(st.l, getCablesOnRUType))
\* variant: the lanes of the header are stored as the lanes with data
HeaderLanesAsData(st, w) ==
    IF IsRunning(st) THEN LanesCheck([st EXCEPT !.l.lanesWithData = w.lanes]) ELSE st
HeaderLanes(st, w) ==
    IF IsRunning(st) THEN LanesCheck([st EXCEPT !.l.lanesActive = w.lanes]) ELSE st
HeaderCheck(st, w) == HeaderLanes(ErrorCheck(st, checkErrorsHeaderWord(st.l, w)), w)
\* data must start with the GBT header
HeaderWord(st, w) == HeaderCheck(Advance(Consumed(st, w, "header")), w)

AfterRDH(st) ==
    IF st.l.lastPageSize = RDHSize THEN st              \* filter out the empty page
    ELSE IF CurRDH(st.l).stop THEN ToNextPage(DiagWord(st, WordAt(st.l, <<>>, 0)))
    ELSE HeaderWord(st, WordAt(st.l, <<>>, 0))

RDHStopped(st) == IF IsRunning(st) THEN AfterRDH(RDHSkip(st)) ELSE st
RDHValidated(st, hbfEntrySav) ==
    IF IsRunning(st) THEN RDHStopped(RDHStopCheck([st EXCEPT !.l = RDHAccept(@, hbfEntrySav)]))
    ELSE st
RDHStep(st) == RDHValidated(RDHValidate(st), st.l.hbfEntry)

(* Then the trigger words *)

\* the trigger word w was read: gbtTrg and the vector of the external triggers
TrigDescribes(w) == (~w.noData) \/ w.internal
\* variant: every Trigger word is put into the vector of the external triggers
TrigWordAll(st, w) ==
    IF st.l.collectsExtTrig
    THEN [st EXCEPT !.l.extTrigVec = Append(@, [bc |-> w.bc, orbit |-> w.orbit, tt |-> w.tt])]
    ELSE st
TrigWord(st, w) ==
    IF (~TrigDescribes(w)) /\ st.l.collectsExtTrig
    THEN [st EXCEPT !.l.extTrigVec = Append(@, [bc |-> w.bc, orbit |-> w.orbit, tt |-> w.tt])]
    ELSE st

RECURSIVE TrigLoop(_, _, _)
\* the calibration word, if there is one at dataOffset, is taken
CalibOrBreak(st, trg, w, oob) ==
    IF w.k = "CRASH" THEN [st |-> Crash(st), trg |-> trg]
    ELSE IF isCalibrationWord(w)
    THEN TrigLoop([Advance(Consumed(st, w, "calib")) EXCEPT !.r.calibData = <<w.cc>>], trg, oob)
    ELSE [st |-> st, trg |-> trg]

AfterTrigWord(st, trg, w, oob) ==
    IF ~w.internal THEN TrigLoop(st, trg, oob)          \* external trigger, may have others
    ELSE CalibOrBreak(st, trg, WordAt(st.l, oob, st.nOOB), oob)

TrigOrCalib(st, trg, w, oob) ==
    IF w.k = "CRASH" THEN [st |-> Crash(st), trg |-> trg]
    ELSE IF isTriggerWord(w)
    THEN AfterTrigWord(TrigWord(Advance(Consumed(st, w, "trig")), w),
                       IF TrigDescribes(w) THEN <<w>> ELSE trg, w, oob)
    ELSE CalibOrBreak(st, trg, w, oob)

\* while (dataOffset < currRawPiece->size): trigger and calibration words;
\* trg is <<>> or the trigger describing the following data
TrigLoop(st, trg, oob) ==
    IF st.l.dataOffset >= PieceSize(st.l) THEN [st |-> st, trg |-> trg]
    ELSE TrigOrCalib(st, trg, WordAt(st.l, oob, st.nOOB), oob)

\* variant: the trigger of a continuation page is parsed as well
TriggerAlwaysParsed(w, alwaysParseTrigger) == TRUE

\* if (!gbtTrg->continuation || alwaysParseTrigger)
TriggerIsParsed(w, alwaysParseTrigger) == (~w.cont) \/ alwaysParseTrigger

\* the trigger describing the data sets the ROF of the link
ApplyTrigger(l, w) ==
    IF TriggerIsParsed(w, l.alwaysParseTrigger)
    THEN [l EXCEPT !.statistics.nTriggers = @ + (IF w.cont THEN 0 ELSE 1),
                   !.ir = [bc |-> w.bc, orbit |-> w.orbit],
                   !.trigger = w.tt,
                   !.lanesStop = {},
                   !.lanesWithData = {}]
    ELSE l

(* The payload *)

\* variant: no result is taken as Skip
NeverSkip(errRes) == FALSE

\* errRes != uint8_t(GBTLink::Skip) is false
IsSkip(errRes) == errRes = Skip

\* variant: the chunk replaces the content of the cable buffer
CableDataSet(r, cableSW, cableHW, w, idInRU) ==
    IF cableSW \in DOMAIN r.cableData
    THEN [r EXCEPT !.cableData[cableSW] = <<w.pl>>]
    ELSE [r EXCEPT !.corrupt = TRUE]

\* variant: the chunk is added to the first cable buffer of the unit
CableDataAddFirst(r, cableSW, cableHW, w, idInRU) ==
    IF cableSW \in DOMAIN r.cableData
    THEN [r EXCEPT !.cableData[0] = Append(@, w.pl),
                   !.cableHWID[0] = cableHW,
                   !.cableLinkID[0] = idInRU,
                   !.cableLinkPtr[0] = TRUE]
    ELSE [r EXCEPT !.corrupt = TRUE]

\* ruPtr->cableData[cableSW].add(gbtD->getW8(), 9) and the three cable records
CableDataAdd(r, cableSW, cableHW, w, idInRU) ==
    IF cableSW \in DOMAIN r.cableData
    THEN [r EXCEPT !.cableData[cableSW] = Append(@, w.pl),
                   !.cableHWID[cableSW] = cableHW,
                   !.cableLinkID[cableSW] = idInRU,
                   !.cableLinkPtr[cableSW] = TRUE]
    ELSE [r EXCEPT !.corrupt = TRUE]

DataAdd(st, w) ==
    IF ~IsRunning(st) THEN st
    ELSE IF IsSkip(st.errRes) THEN Advance(st)
    ELSE Advance([st EXCEPT !.r = CableDataAdd(@, cableHW2SW(w.cable), w.cable, w, st.l.idInRU)])

\* the cable part of the loop body, res being what checkErrorsCableID returns
DataCableGiven(st, w, res) ==
    IF ~IsRunning(st) THEN st
    ELSE IF IsSkip(st.errRes) THEN Advance(st)
    ELSE DataAdd(ErrorCheck(st, res), w)

DataCable(st, w) ==
    DataCableGiven(st, w, checkErrorsCableID(st.l, w, cableHW2SW(w.cable)))

\* the body of the payload loop for the word w at dataOffset
DataWord(st, w) ==
    DataCable(ErrorCheck(Consumed(st, w, "data"), checkErrorsGBTDataID(st.l, w)), w)

\* the same body with the bit masks the two checks return given: errID by
\* checkErrorsGBTDataID, errCable by checkErrorsCableID
DataWordGiven(st, w, errID, errCable) ==
    DataCableGiven(ErrorCheck(Consumed(st, w, "data"), [l |-> st.l, err |-> errID]),
                   w, [l |-> st.l, err |-> errCable])

\* while (!gbtD->isDataTrailer() && !isAlignmentPadding()): the real payload.
\* The result stands at the trailer or at the padding, or the call has ended.
RECURSIVE DataLoop(_, _)
DataLoopAt(st, w, oob) ==
    IF w.k = "CRASH" THEN Crash(st)
    ELSE IF isDataTrailer(w) \/ isAlignmentPadding(st.l, w) THEN st
    ELSE DataLoop(DataWord(st, w), oob)
DataLoop(st, oob) ==
    IF IsRunning(st) THEN DataLoopAt(st, WordAt(st.l, oob, st.nOOB), oob) ELSE st

\* variant: every trailer closes the packet
TrailerAlwaysEnds(w) == TRUE

\* if (!gbtT->packetDone) is false: the trailer closes the packet
TrailerEndsCall(w) == w.pdone

\* if (expectPacketDone) after the loop over the pages
EndOfDataChecked(st) == IF IsRunning(st) THEN Return(st, DataSeen) ELSE st
EndOfData(st) ==
    IF st.expectPacketDone
    THEN EndOfDataChecked(ErrorCheck(st, checkErrorsPacketDoneMissing(st.l, TRUE, FALSE)))
    ELSE Return(st, StoppedOnEndOfData)

\* variant: the call answers DataSeen for a trigger with noData
NoDataDataSeen(l) == DataSeen

\* what the call returns when the trigger describing the data has noData
NoDataStatus(l) == l.status

RECURSIVE PageLoop(_, _)

\* dataOffset < currRawPiece->size && !isAlignmentPadding()
NotEnd(st, oob) ==
    st.l.dataOffset < PieceSize(st.l) /\ ~isAlignmentPadding(st.l, WordAt(st.l, oob, st.nOOB))

\* we finished the GBT page, but there might be continuation on the next CRU page
AfterTrailer(st, w, oob) ==
    IF ~IsRunning(st) THEN st
    ELSE IF ~TrailerEndsCall(w)
    THEN PageLoop(ErrorCheck(st, checkErrorsPacketDoneMissing(st.l, FALSE, NotEnd(st, oob))), oob)
    ELSE Return([st EXCEPT !.l.statistics.packetStates[getPacketState(w)] = @ + 1], DataSeen)

TrailerCheck(st, w, oob) == AfterTrailer(ErrorCheck(st, checkErrorsTrailerWord(st.l, w)), w, oob)

\* the payload loop has ended at the word w: the alignment padding or the trailer
AfterData(st, w, oob) ==
    IF ~IsRunning(st) THEN st
    ELSE IF ~isDataTrailer(w)
    THEN Return([st EXCEPT !.l.dataOffset = st.l.lastPageSize], DataSeen)
    ELSE TrailerCheck(Advance(Consumed(st, w, "trailer")), w, oob)

PayloadData(st, oob) == AfterData(st, WordAt(st.l, oob, st.nOOB), oob)

\* the trigger is supposed to be seen; then the payload is read
AfterIRCheck(st, oob) ==
    IF IsRunning(st) THEN PayloadData(DataLoop([st EXCEPT !.expectPacketDone = TRUE], oob), oob)
    ELSE st

\* the trigger words are read and gbtTrg, if any, was applied
AfterTriggers(st, trg, oob) ==
    IF trg # <<>> /\ trg[1].noData THEN [st EXCEPT !.ret = NoDataStatus(st.l)]
    ELSE IF st.l.dataOffset >= PieceSize(st.l) THEN PageLoop(st, oob)
    ELSE IF isAlignmentPadding(st.l, WordAt(st.l, oob, st.nOOB))
    THEN PageLoop([st EXCEPT !.l.dataOffset = st.l.lastPageSize], oob)
    ELSE AfterIRCheck(ErrorCheck(st, checkErrorsIRNotExtracted(st.l)), oob)

\* if (gbtTrg): the trigger describing the data, if one was seen, is applied
TriggerApplied(t) ==
    IF t.trg # <<>> THEN [t.st EXCEPT !.l = ApplyTrigger(@, t.trg[1])] ELSE t.st

AfterTrigLoop(t, oob) ==
    IF ~IsRunning(t.st) THEN t.st
    ELSE AfterTriggers(TriggerApplied(t), t.trg, oob)

\* the page from the trigger words on: triggers, payload, trailer
Payload(st, oob) == AfterTrigLoop(TrigLoop(st, <<>>, oob), oob)

\* dataOffset = 0; currRawPiece = rawData.nextPiece()
NextPiece(st) == [st EXCEPT !.l.dataOffset = 0, !.l.rawData = SGnextPiece(@)]

PageStart(st, oob) ==
    IF ~SGhasCurrent(st.l.rawData) THEN EndOfData(st)      \* the data chunk is done
    ELSE PageLoop(RDHStep(st), oob)

\* while (currRawPiece): we may loop over multiple CRU pages
PageLoop(st, oob) ==
    IF ~IsRunning(st) THEN st
    ELSE IF ~SGhasCurrent(st.l.rawData) THEN EndOfData(st)
    ELSE IF st.l.dataOffset >= PieceSize(st.l) THEN PageStart(NextPiece(st), oob)
    ELSE IF st.l.dataOffset = 0 THEN PageLoop(RDHStep(st), oob)
    ELSE IF Cursor(st.l) \in st.seen THEN Hang(st)
    ELSE Payload([st EXCEPT !.seen = @ \cup {Cursor(st.l)}], oob)

\* GBTLink::collectROFCableData
collectROFCableData(l, r, oob) ==
    IF EntryCachedData(l) THEN Return(NewCall([l EXCEPT !.status = None], r), CachedDataExist)
    ELSE PageLoop(NewCall([l EXCEPT !.status = None, !.ir = IRDummy], r), oob)

-----------------------------------------------------------------------------
(* The pages fed to the link *)

RDHok == RDH(TRUE, FALSE, 0, 1)
H2 == WHeader({0, 1})
H3 == WHeader({0, 1, 2})
\* triggers: of the ROF, continuation, without data, external (physics), of a later ROF
T1 == WTrigger(FALSE, TRUE, FALSE, 0, 1)
TC == WTrigger(FALSE, TRUE, TRUE, 0, 1)
TN == WTrigger(TRUE, TRUE, FALSE, 0, 1)
TE == WTrigger(TRUE, FALSE, FALSE, 7, 1)
TJ == WTrigger(FALSE, TRUE, FALSE, 0, 2)
TRdone == WTrailer(TRUE, {})
TRopen == WTrailer(FALSE, {})

PgGood == Page(RDHok, <<H2, T1, WData(1, 1), WData(2, 2), WData(1, 3), TRdone>>)
PgWrongCable == Page(RDHok, <<H3, T1, WData(7, 4), WUnknown, WData(1, 1), TRdone>>)
PgOpen == Page(RDHok, <<H2, T1, WData(1, 1), TRopen>>)
PgCont == Page(RDH(TRUE, FALSE, 1, 1), <<H2, TC, WData(2, 2), TRdone>>)
PgNoTrailer == Page(RDHok, <<H2, T1, WData(1, 1), WData(2, 2), WData(1, 3)>>)
PgNoData == Page(RDHok, <<H2, TN>>)
PgExtCal == Page(RDHok, <<H2, TE, T1, WCalib(5), WData(2, 2), TRdone>>)
PgStop == Page(RDH(TRUE, TRUE, 1, 1), <<WDiag>>)
PgBadRDH == Page(RDH(FALSE, FALSE, 0, 1), <<H2, T1, WData(1, 1), TRdone>>)
PgJump == Page(RDH(TRUE, FALSE, 0, 2), <<H2, TJ, WData(1, 5), TRdone>>)
PgNoTrigger == Page(RDHok, <<H2, WData(1, 1), TRdone>>)

PageSet == {PgGood, PgWrongCable, PgOpen, PgCont, PgNoTrailer, PgNoData, PgExtCal,
            PgStop, PgBadRDH, PgJump, PgNoTrigger}

\* words the memory after a page may hold
OOBWords == {TN, WData(2, 9), TRdone, WUnknown}

\* the Data words of the synthetic packets: two cables, two payloads
DataWords == {WData(c, p) : c \in {1, 2}, p \in {1, 2}}
SeqsUpTo(S, n) == UNION {[1..k -> S] : k \in 0..n}
\* RDH, Header, Trigger, N Data words with mapped cable ids, Trailer with packetDone
WellFormedPage(ds) == Page(RDHok, <<H2, T1>> \o ds \o <<TRdone>>)
WFPages == {WellFormedPage(ds) : ds \in SeqsUpTo(DataWords, MaxData)}
\* the same packet on two pages: the first k Data words and a trailer without
\* packetDone, then a page with the continuation trigger, the rest and the trailer
SplitFirst(ds, k) == Page(RDHok, <<H2, T1>> \o SubSeq(ds, 1, k) \o <<TRopen>>)
SplitSecond(ds, k) ==
    Page(RDH(TRUE, FALSE, 1, 1), <<H2, TC>> \o SubSeq(ds, k + 1, Len(ds)) \o <<TRdone>>)
SplitPoints(ds) == 1..(Len(ds) - 1)

-----------------------------------------------------------------------------
(* Actions *)

Snapshot(op, reads, abortAt, oob) ==
    [op |-> op, l0 |-> link, r0 |-> ru, reads |-> reads, abortAt |-> abortAt, oob |-> oob]

Alive == ret \notin {Crashed, Hung}

Init ==
    /\ \E ep \in BOOLEAN : link = NewLink(ep, FALSE)
    /\ ru = NewRU
    /\ ret = None
    /\ last = [op |-> "init", l0 |-> link, r0 |-> ru, reads |-> <<>>, abortAt |-> -1, oob |-> <<>>]
    /\ callerIR = [bc |-> 0, orbit |-> 1]
    /\ linkOne = link
    /\ ruOne = NewRU
    /\ retOne = None
    /\ job = <<>>

\* every way the call can go, for the memory that may follow the pages: the call
\* and the words it was given for its reads outside the page
RECURSIVE Outcomes(_, _, _)
Outcomes(l, r, oob) ==
    LET o == collectROFCableData(l, r, oob)
    IN  {[call |-> o, oob |-> oob]} \cup (IF o.ret = Crashed /\ Len(oob) < MaxOOB
                  THEN UNION {Outcomes(l, r, Append(oob, w)) : w \in OOBWords}
                  ELSE {})

\* the reader caches one more page of the link
CacheData(p) ==
    /\ Alive
    /\ Len(link.rawData.pieces) < MaxPages
    /\ link' = cacheData(link, p)
    /\ last' = Snapshot("cache", <<>>, -1, <<>>)
    /\ UNCHANGED <<ru, ret, callerIR, linkOne, ruOne, retOne, job>>

\* the decoder of the readout unit calls collectROFCableData
Collect ==
    /\ Alive
    /\ \E o \in Outcomes(link, ru, <<>>) :
          /\ link' = o.call.l
          /\ ru' = o.call.r
          /\ ret' = o.call.ret
          /\ last' = Snapshot("collect", o.call.reads, o.call.abortAt, o.oob)
    /\ UNCHANGED <<callerIR, linkOne, ruOne, retOne, job>>

\* the caller finds the ROF of the link ahead of the frame it assembles
DetectRofJump ==
    /\ Alive
    /\ last.op = "collect" /\ ret = DataSeen
    /\ IRAhead(link.ir, callerIR)
    /\ ~link.rofJumpWasSeen
    /\ link' = [link EXCEPT !.rofJumpWasSeen = TRUE]
    /\ last' = Snapshot("detect", <<>>, -1, <<>>)
    /\ UNCHANGED <<ru, ret, callerIR, linkOne, ruOne, retOne, job>>

\* the caller moves to the frame of the link and takes its cached data
CallerAdvance ==
    /\ Alive
    /\ link.rofJumpWasSeen
    /\ last.op = "collect"
    /\ callerIR' = link.ir
    /\ link' = [link EXCEPT !.rofJumpWasSeen = FALSE]
    /\ last' = Snapshot("advance", <<>>, -1, <<>>)
    /\ UNCHANGED <<ru, ret, linkOne, ruOne, retOne, job>>

Next ==
    \/ \E p \in PageSet : CacheData(p)
    \/ Collect
    \/ DetectRofJump
    \/ CallerAdvance

Spec == Init /\ [][Next]_vars

(* One well-formed page on a new link *)

CacheWF(p) ==
    /\ link.rawData.pieces = <<>>
    /\ link' = cacheData(link, p)
    /\ last' = Snapshot("cache", <<>>, -1, <<>>)
    /\ UNCHANGED <<ru, ret, callerIR, linkOne, ruOne, retOne, job>>

NextWF ==
    \/ \E p \in WFPages : CacheWF(p)
    \/ Collect

SpecWF == Init /\ [][NextWF]_vars

(* One packet given to two new links: to link on two pages, to linkOne on one *)

CacheSplit(ds, k) ==
    /\ job = <<>>
    /\ link' = cacheData(cacheData(link, SplitFirst(ds, k)), SplitSecond(ds, k))
    /\ linkOne' = cacheData(linkOne, WellFormedPage(ds))
    /\ job' = <<[ds |-> ds, k |-> k]>>
    /\ last' = Snapshot("cache", <<>>, -1, <<>>)
    /\ UNCHANGED <<ru, ret, callerIR, ruOne, retOne>>

CollectBoth ==
    /\ job # <<>>
    /\ last.op = "cache"
    /\ \E o \in Outcomes(link, ru, <<>>), o1 \in Outcomes(linkOne, ruOne, <<>>) :
          /\ link' = o.call.l
          /\ ru' = o.call.r
          /\ ret' = o.call.ret
          /\ linkOne' = o1.call.l
          /\ ruOne' = o1.call.r
          /\ retOne' = o1.call.ret
          /\ last' = Snapshot("collect", o.call.reads, o.call.abortAt, o.oob)
    /\ UNCHANGED <<callerIR, job>>

NextSplit ==
    \/ \E ds \in SeqsUpTo(DataWords, MaxData) : \E k \in SplitPoints(ds) : CacheSplit(ds, k)
    \/ CollectBoth

SpecSplit == Init /\ [][NextSplit]_vars

(* Pages whose trailers stop or time out a lane before the page ends *)

\* the lane of a cable of the readout unit (chmap.cableHW2Pos)
cableHW2Pos(cableHW) == cableHW2SW(cableHW)
TRstop == WTrailer(FALSE, {0})
TRtimeOut == [WTrailer(TRUE, {}) EXCEPT !.louts = {1}]
PgLaneStop == Page(RDHok, <<H2, T1, WData(1, 1), TRstop, WData(1, 3), TRdone>>)
PgLaneTimeOut == Page(RDHok, <<H2, T1, WData(2, 2), TRtimeOut, WData(2, 4), TRdone>>)
LanePages == {PgGood, PgOpen, PgCont, PgLaneStop, PgLaneTimeOut}

NextLanes ==
    \/ \E p \in LanePages : CacheData(p)
    \/ Collect

SpecLanes == Init /\ [][NextLanes]_vars

(* A link with a history is cleared and then fed the pages a new link is fed *)

ClearPages == {PgGood, PgJump, PgNoTrigger}
Cleared == job # <<>>
BothAlive == Alive /\ retOne \notin {Crashed, Hung}

CacheBefore(p) == ~Cleared /\ CacheData(p)
CollectBefore == ~Cleared /\ Collect
JumpBefore == ~Cleared /\ DetectRofJump

\* clear(true, true) on link; the cable buffers of the unit are emptied with it,
\* linkOne and ruOne are as constructed
Clear ==
    /\ ~Cleared /\ Alive
    /\ link' = clear(link, TRUE, TRUE)
    /\ ru' = NewRU
    /\ ret' = None
    /\ job' = <<[oob |-> <<>>]>>
    /\ last' = [op |-> "clear", l0 |-> link', r0 |-> ru', reads |-> <<>>, abortAt |-> -1,
                oob |-> <<>>]
    /\ UNCHANGED <<callerIR, linkOne, ruOne, retOne>>

CacheBoth(p) ==
    /\ Cleared /\ BothAlive
    /\ Len(link.rawData.pieces) < MaxPages
    /\ link' = cacheData(link, p)
    /\ linkOne' = cacheData(linkOne, p)
    /\ last' = Snapshot("cache", <<>>, -1, <<>>)
    /\ UNCHANGED <<ru, ret, callerIR, ruOne, retOne, job>>

\* one call on each link; job keeps the words linkOne was given from outside
CollectPair ==
    /\ Cleared /\ BothAlive
    /\ \E o \in Outcomes(link, ru, <<>>), o1 \in Outcomes(linkOne, ruOne, <<>>) :
          /\ link' = o.call.l
          /\ ru' = o.call.r
          /\ ret' = o.call.ret
          /\ linkOne' = o1.call.l
          /\ ruOne' = o1.call.r
          /\ retOne' = o1.call.ret
          /\ job' = <<[oob |-> o1.oob]>>
          /\ last' = Snapshot("collect", o.call.reads, o.call.abortAt, o.oob)
    /\ UNCHANGED callerIR

NextClear ==
    \/ \E p \in ClearPages : CacheBefore(p)
    \/ CollectBefore
    \/ JumpBefore
    \/ Clear
    \/ \E p \in ClearPages : CacheBoth(p)
    \/ CollectPair

SpecClear == Init /\ [][NextClear]_vars

(* Two links of one readout unit: link carries cable 1, linkOne cable 2 *)

PgOnlyOne == Page(RDHok, <<H2, T1, WData(1, 1), WData(1, 3), TRdone>>)
PgOnlyTwo == Page(RDHok, <<H2, T1, WData(2, 2), TRdone>>)
PagesOfLink == {PgOnlyOne, PgOpen}
PagesOfLinkOne == {PgOnlyTwo}

\* ru is the unit of both links; ruOne is a unit that only link decodes into, and
\* SoloOne a unit that only linkOne decodes into, each given the same calls
SoloOne == IF job = <<>> THEN NewRU ELSE job[1]

InitTwo ==
    /\ \E ep \in BOOLEAN :
          /\ link = NewLink(ep, FALSE)
          /\ linkOne = [NewLink(ep, FALSE) EXCEPT !.idInRU = 1]
    /\ ru = NewRU
    /\ ret = None
    /\ last = [op |-> "init", l0 |-> link, r0 |-> ru, reads |-> <<>>, abortAt |-> -1, oob |-> <<>>]
    /\ callerIR = [bc |-> 0, orbit |-> 1]
    /\ ruOne = NewRU
    /\ retOne = None
    /\ job = <<>>

CacheLink(p) ==
    /\ BothAlive
    /\ Len(link.rawData.pieces) < MaxPages
    /\ link' = cacheData(link, p)
    /\ last' = [last EXCEPT !.op = "cache"]
    /\ UNCHANGED <<ru, ret, callerIR, linkOne, ruOne, retOne, job>>

CacheLinkOne(p) ==
    /\ BothAlive
    /\ Len(linkOne.rawData.pieces) < MaxPages
    /\ linkOne' = cacheData(linkOne, p)
    /\ last' = [last EXCEPT !.op = "cacheOne"]
    /\ UNCHANGED <<link, ru, ret, callerIR, ruOne, retOne, job>>

CollectLink ==
    /\ BothAlive
    /\ \E o \in Outcomes(link, ru, <<>>) :
          /\ link' = o.call.l
          /\ ru' = o.call.r
          /\ ret' = o.call.ret
          /\ ruOne' = collectROFCableData(link, ruOne, o.oob).r
    /\ last' = [last EXCEPT !.op = "collect"]
    /\ UNCHANGED <<callerIR, linkOne, retOne, job>>

CollectLinkOne ==
    /\ BothAlive
    /\ \E o \in Outcomes(linkOne, ru, <<>>) :
          /\ linkOne' = o.call.l
          /\ ru' = o.call.r
          /\ retOne' = o.call.ret
          /\ job' = <<collectROFCableData(linkOne, SoloOne, o.oob).r>>
    /\ last' = [last EXCEPT !.op = "collectOne"]
    /\ UNCHANGED <<callerIR, link, ret, ruOne>>

NextTwo ==
    \/ \E p \in PagesOfLink : CacheLink(p)
    \/ \E p \in PagesOfLinkOne : CacheLinkOne(p)
    \/ CollectLink
    \/ CollectLinkOne

SpecTwo == InitTwo /\ [][NextTwo]_vars

(* The body of the payload loop for one Data word, over the results of its checks *)

\* the bit masks a check may return for a word that is not fatal
CheckResults == {NoError, Warning, Skip, Skip \cup Warning, Skip \cup ErrorPrinted}
MappedWords == {WData(1, 1), WData(2, 2)}
\* a link that has read the RDH, the Header and the Trigger of a page and has its
\* cursor at the Data word w
DataPage(w) == Page(RDHok, <<H2, T1, w, TRdone>>)
AtDataWord(ep, w) ==
    [cacheData(NewLink(ep, FALSE), DataPage(w))
        EXCEPT !.dataOffset = RDHSize + 2 * NewLink(ep, FALSE).wordLength,
               !.lastRDH = <<RDHok>>,
               !.lastPageSize = PageSize(DataPage(w), ep),
               !.lanesActive = {0, 1},
               !.ir = [bc |-> 0, orbit |-> 1],
               !.irHBF = [bc |-> 0, orbit |-> 1],
               !.trigger = T1.tt,
               !.statistics.nPackets = 1,
               !.statistics.nTriggers = 1]
\* the unit as constructed, or with a chunk of another link in its first buffer
UnitsBefore == {NewRU, CableDataAdd(NewRU, 0, 1, WData(1, 7), 1)}

InitSkip ==
    /\ \E ep \in BOOLEAN, w \in MappedWords, errID \in CheckResults, errCable \in CheckResults :
          /\ link = AtDataWord(ep, w)
          /\ job = <<[w |-> w, errID |-> errID, errCable |-> errCable, done |-> FALSE]>>
    /\ ru \in UnitsBefore
    /\ ret = None
    /\ last = [op |-> "init", l0 |-> link, r0 |-> ru, reads |-> <<>>, abortAt |-> -1, oob |-> <<>>]
    /\ callerIR = [bc |-> 0, orbit |-> 1]
    /\ linkOne = link
    /\ ruOne = NewRU
    /\ retOne = None

\* one pass of the loop body of lines 396-409
DataWordStep ==
    /\ ~job[1].done
    /\ LET st == DataWordGiven(NewCall(link, ru), job[1].w, job[1].errID, job[1].errCable)
       IN  /\ link' = st.l
           /\ ru' = st.r
           /\ last' = Snapshot("data", st.reads, st.abortAt, <<>>)
    /\ job' = <<[job[1] EXCEPT !.done = TRUE]>>
    /\ UNCHANGED <<ret, callerIR, linkOne, ruOne, retOne>>

SpecSkip == InitSkip /\ [][DataWordStep]_vars

(* Pages without payload and pages whose payload follows a no-data trigger *)

PgEmpty == Page(RDHok, <<>>)
PgTrigOnly == Page(RDHok, <<H2, TE>>)
PgTrigTwo == Page(RDHok, <<H2, TE, TE>>)
PgNoDataFull == Page(RDHok, <<H2, TN, WData(1, 1), TRdone>>)
FramePages == {PgOpen, PgCont, PgNoDataFull, PgEmpty, PgStop, PgTrigOnly, PgTrigTwo, PgExtCal,
               PgNoTrigger}

NextFrames ==
    \/ \E p \in FramePages : CacheData(p)
    \/ Collect

SpecFrames == Init /\ [][NextFrames]_vars

(* Pages of eight and more words: the size of the first is one more word offset
   of the second *)

PgLongNoTrigger ==
    Page(RDHok, <<H2, WData(1, 1), WData(2, 2), WData(1, 1), WData(2, 2), WData(1, 1),
                  WData(2, 2), TRdone>>)
PgTriggersOnly == Page(RDHok, <<H2, TE, TE, TE, TE, TE, TE, TE, TE, TE>>)
LongPages == {PgLongNoTrigger, PgTriggersOnly, PgGood, PgTrigOnly}

NextLong ==
    \/ \E p \in LongPages : CacheData(p)
    \/ Collect

SpecLong == Init /\ [][NextLong]_vars

(* The trigger words of a page, over the trigger options of the link *)

TNC == WTrigger(TRUE, TRUE, TRUE, 0, 1)
T5 == WTrigger(FALSE, TRUE, FALSE, 5, 1)
\* the Trigger and Calibration words that follow the Header of a page
TE9 == WTrigger(TRUE, FALSE, FALSE, 9, 1)
TriggerWords == {<<T1>>, <<TC>>, <<TN>>, <<TNC>>, <<T5>>, <<TE>>, <<TE, T1>>, <<TE, TC>>,
                 <<TE, TE9, T5>>, <<TE9, TE>>, <<T1, WCalib(5)>>, <<TC, WCalib(5)>>}
TriggerPage(tw) == Page(RDHok, <<H2>> \o tw \o <<WData(1, 1), TRdone>>)
\* a link that has read the RDH and the Header of a page and has its cursor at the
\* first word after the Header; before is what the earlier pages of the frame
\* left in ir, trigger, lanesStop and lanesTimeOut
FramesBefore ==
    [ir : {IRDummy, [bc |-> 0, orbit |-> 1]}, trigger : {0, T1.tt},
     lanesStop : {{}, {0}}, lanesTimeOut : {{}, {1}}]
AtTriggerWords(ep, apt, tw, before) ==
    [cacheData(NewLink(ep, apt), TriggerPage(tw))
        EXCEPT !.dataOffset = RDHSize + NewLink(ep, apt).wordLength,
               !.lastRDH = <<RDHok>>,
               !.lastPageSize = PageSize(TriggerPage(tw), ep),
               !.lanesActive = {0, 1},
               !.ir = before.ir,
               !.irHBF = [bc |-> 0, orbit |-> 1],
               !.trigger = before.trigger,
               !.lanesStop = before.lanesStop,
               !.lanesTimeOut = before.lanesTimeOut,
               !.statistics.nPackets = 1]

InitTrig ==
    /\ \E ep \in BOOLEAN, apt \in BOOLEAN, tw \in TriggerWords, before \in FramesBefore :
          link = AtTriggerWords(ep, apt, tw, before)
    /\ job = <<[done |-> FALSE]>>
    /\ ru = NewRU
    /\ ret = None
    /\ last = [op |-> "init", l0 |-> link, r0 |-> ru, reads |-> <<>>, abortAt |-> -1, oob |-> <<>>]
    /\ callerIR = [bc |-> 0, orbit |-> 1]
    /\ linkOne = link
    /\ ruOne = NewRU
    /\ retOne = None

\* lines 325-367: the scan of the trigger words and the use of gbtTrg
TriggerStep ==
    /\ ~job[1].done
    /\ LET st == TriggerApplied(TrigLoop(NewCall(link, ru), <<>>, <<>>))
       IN  /\ link' = st.l
           /\ ru' = st.r
           /\ last' = Snapshot("trigger", st.reads, st.abortAt, <<>>)
    /\ job' = <<[job[1] EXCEPT !.done = TRUE]>>
    /\ UNCHANGED <<ret, callerIR, linkOne, ruOne, retOne>>

SpecTrig == InitTrig /\ [][TriggerStep]_vars

(* One page given to two new links: to link with a Calibration word among its
   trigger words, to linkOne without it *)

CalibWord == WCalib(5)
TriggerAlphabet == {TE, T1, T5, TN, TC}
TriggerSeqs == UNION {[1..k -> TriggerAlphabet] : k \in 1..2}
InsertAt(tw, k, w) == SubSeq(tw, 1, k) \o <<w>> \o SubSeq(tw, k + 1, Len(tw))
\* the trigger scan of lines 329-358 gets to the word behind the first k triggers:
\* those before the k-th are external
ScanReaches(tw, k) == \A i \in 1..(k - 1) : ~tw[i].internal
CalibPage(tw) == Page(RDHok, <<H2>> \o tw \o <<WData(1, 1), TRdone>>)

CacheCalib(pre, tw, k) ==
    /\ job = <<>>
    /\ ScanReaches(tw, k)
    /\ link' = cacheData(IF pre THEN cacheData(link, PgOpen) ELSE link,
                         CalibPage(InsertAt(tw, k, CalibWord)))
    /\ linkOne' = cacheData(IF pre THEN cacheData(linkOne, PgOpen) ELSE linkOne, CalibPage(tw))
    /\ job' = <<[tw |-> tw, k |-> k]>>
    /\ last' = Snapshot("cache", <<>>, -1, <<>>)
    /\ UNCHANGED <<ru, ret, callerIR, ruOne, retOne>>

NextCalib ==
    \/ \E pre \in BOOLEAN, tw \in TriggerSeqs : \E k \in 0..Len(tw) : CacheCalib(pre, tw, k)
    \/ CollectBoth

SpecCalib == Init /\ [][NextCalib]_vars

-----------------------------------------------------------------------------
(* The AOD thinner (main of the reduction tool). Its state is kept in job[1]:
   the position in main, the tables of the one DF_ folder of the input file,
   exitCode, and whether the output file is on disk. *)

MaxTracks == 2
MaxAmb == 2

\* a row of O2trackextra with fIndexCollisions of the same row of O2track_iu
TrackKinds ==
    {[fIndexCollisions |-> c, tpcNClsFindable |-> 1, TRDPattern |-> 0, TOFChi2 |-> -2,
      ITSClusterMap |-> m] : c \in {-1, 0}, m \in {0, 1}}
\* the tables are functions over the row numbers 0..(n - 1)
TracksUpTo(n) == UNION {[0..(k - 1) -> TrackKinds] : k \in 1..n}
\* O2ambiguoustrack: fIndexTracks of each row, -1 for unassigned
AmbUpTo(n, tracks) == UNION {[0..(k - 1) -> -1..(tracks - 1)] : k \in 0..n}
\* O2v0: no row, or one row with the first and the last track as prongs
V0Tables(tracks) ==
    {<<>>, <<[fIndexTracks_Pos |-> 0, fIndexTracks_Neg |-> tracks - 1]>>}
Size(f) == Cardinality(DOMAIN f)

\* keepV0s[trackIdxPos] = true; keepV0s[trackIdxNeg] = true for every V0
keepV0s(in) ==
    [i \in DOMAIN in.tracks |->
        \E k \in DOMAIN in.v0s :
            in.v0s[k].fIndexTracks_Pos = i \/ in.v0s[k].fIndexTracks_Neg = i]

\* keepTrackQA[trackIdxPos] = true for every row of the trackqa table
keepTrackQA(in) ==
    [i \in DOMAIN in.tracks |-> \E k \in DOMAIN in.qa : in.qa[k] = i]

\* variant: the prongs of the V0s are not spared
TPCOnlyProngs(in, i) ==
    /\ in.tracks[i].tpcNClsFindable > 0 /\ in.tracks[i].TRDPattern = 0
    /\ in.tracks[i].TOFChi2 < -1
    /\ in.tracks[i].ITSClusterMap = 0
    /\ (~in.hasTrackQA \/ ~keepTrackQA(in)[i])

\* a TPC-only track that is no prong of a V0 and has no row in the trackqa
\* table (fITSClusterMap present, fITSClusterSizes absent)
TPCOnly(in, i) ==
    /\ in.tracks[i].tpcNClsFindable > 0 /\ in.tracks[i].TRDPattern = 0
    /\ in.tracks[i].TOFChi2 < -1
    /\ in.tracks[i].ITSClusterMap = 0
    /\ (~in.hasTrackQA \/ ~keepTrackQA(in)[i])
    /\ ~keepV0s(in)[i]

\* variant: the index of a kept track is left as it was
AcceptedIndexOld(i, counter) == i

\* acceptedTracks[i] = i - counter
AcceptedIndex(i, counter) == i - counter

\* the loop over all tracks from row i on: counter++ for a removed track, whose
\* acceptedTracks[i] stays -1
RECURSIVE TrackLoop(_, _, _, _)
TrackLoop(in, i, counter, accepted) ==
    IF i >= Size(in.tracks) THEN accepted
    ELSE IF TPCOnly(in, i) THEN TrackLoop(in, i + 1, counter + 1, accepted)
    ELSE TrackLoop(in, i + 1, counter, [accepted EXCEPT ![i] = AcceptedIndex(i, counter)])

\* std::vector<int> acceptedTracks(entries, -1) after the loop over all tracks
acceptedTracks(in) == TrackLoop(in, 0, 0, [i \in DOMAIN in.tracks |-> -1])

\* hasCollision[i] = (fIndexCollisions >= 0)
hasCollision(in) == [i \in DOMAIN in.tracks |-> in.tracks[i].fIndexCollisions >= 0]

\* what hasCollision[i] gives for the row i of a table: the flag of track i, or,
\* for i past the tracks, what the read after the vector gives
OOBBits == {"true", "false", "fault"}
FlagAt(in, i, oob) ==
    IF i \in DOMAIN in.tracks THEN (IF hasCollision(in)[i] THEN "true" ELSE "false")
    ELSE oob[i]

\* the rows of the track tables that are filled: acceptedTracks[i] >= 0
FilledTracks(in) == {i \in DOMAIN in.tracks : acceptedTracks(in)[i] >= 0}

\* fillThisEntry for the row i of O2ambiguoustrack
fillThisEntry(in, i, oob) ==
    /\ (in.amb[i] >= 0 => acceptedTracks(in)[in.amb[i]] >= 0)
    /\ FlagAt(in, i, oob) # "true"
\* the rows of O2ambiguoustrack that are filled, and the index they are filled with
FilledAmb(in, oob) == {i \in DOMAIN in.amb : fillThisEntry(in, i, oob)}
NewIndex(in, i) == IF in.amb[i] >= 0 THEN acceptedTracks(in)[in.amb[i]] ELSE in.amb[i]

ThinStart(in) ==
    [pc |-> "options", in |-> in, exitCode |-> 0, returned |-> 0,
     created |-> FALSE, onDisk |-> FALSE, keptTracks |-> {}, keptAmb |-> {}, ambIndex |-> <<>>]
thin == job[1]
Exit(t, code) == [t EXCEPT !.pc = "exit", !.returned = code]
Others == <<link, ru, ret, last, callerIR, linkOne, ruOne, retOne>>

InitThin ==
    /\ link = NewLink(TRUE, FALSE)
    /\ ru = NewRU
    /\ ret = None
    /\ last = [op |-> "init", l0 |-> link, r0 |-> ru, reads |-> <<>>, abortAt |-> -1, oob |-> <<>>]
    /\ callerIR = [bc |-> 0, orbit |-> 1]
    /\ linkOne = link
    /\ ruOne = NewRU
    /\ retOne = None
    /\ \E tracks \in TracksUpTo(MaxTracks) :
          \E amb \in AmbUpTo(MaxAmb, Size(tracks)), v0s \in V0Tables(Size(tracks)) :
              job = <<ThinStart([tracks |-> tracks, amb |-> amb, v0s |-> v0s,
                                  hasTrackQA |-> FALSE, qa |-> <<>>])>>

\* getopt_long: -h and unknown options print the help and return -1
ParseOptions ==
    /\ thin.pc = "options"
    /\ \E help \in BOOLEAN :
          job' = <<IF help THEN Exit(thin, -1) ELSE [thin EXCEPT !.pc = "output"]>>
    /\ UNCHANGED Others

\* TFile::Open of the output file with CREATE or RECREATE
OpenOutput ==
    /\ thin.pc = "output"
    /\ \E opened \in BOOLEAN :
          job' = <<IF opened
                   THEN [thin EXCEPT !.pc = "input", !.created = TRUE, !.onDisk = TRUE]
                   ELSE Exit(thin, 1)>>
    /\ UNCHANGED Others

\* TFile::Open of the input file
OpenInput ==
    /\ thin.pc = "input"
    /\ \E opened \in BOOLEAN :
          job' = <<IF opened THEN [thin EXCEPT !.pc = "folder"] ELSE Exit(thin, 1)>>
    /\ UNCHANGED Others

\* the head of the loop body for the DF_ folder: the duplicate keys and the
\* tables the track skimming needs
MissingCodes == {0, 6, 7, 8, 10}
ScanFolder ==
    /\ thin.pc = "folder"
    /\ \E wrongCycle \in BOOLEAN, missing \in MissingCodes :
          job' = <<IF missing # 0
                   THEN [thin EXCEPT !.pc = "close", !.exitCode = missing]
                   ELSE [thin EXCEPT !.pc = "trees",
                                     !.exitCode = IF wrongCycle THEN 5 ELSE @]>>
    /\ UNCHANGED Others

\* the loop over the trees of the folder: the track tables, O2v0 and
\* O2ambiguoustrack are filled and written
FillTrees ==
    /\ thin.pc = "trees"
    /\ \E oob \in [DOMAIN thin.in.amb \ DOMAIN thin.in.tracks -> OOBBits] :
          job' = <<IF \E i \in DOMAIN oob : oob[i] = "fault"
                   THEN [thin EXCEPT !.pc = "fault"]
                   ELSE [thin EXCEPT !.pc = "close",
                                     !.keptTracks = FilledTracks(thin.in),
                                     !.keptAmb = FilledAmb(thin.in, oob),
                                     !.ambIndex = [i \in FilledAmb(thin.in, oob) |->
                                                      NewIndex(thin.in, i)]]>>
    /\ UNCHANGED Others

\* outputFile->Write(), Close(), and the removal of the file in case of failure
CloseFiles ==
    /\ thin.pc = "close"
    /\ job' = <<IF thin.exitCode # 0
                 THEN Exit([thin EXCEPT !.onDisk = FALSE], thin.exitCode)
                 ELSE [thin EXCEPT !.pc = "stats"]>>
    /\ UNCHANGED Others

\* the report of the savings: sBefore <= 0 || sAfter <= 0 sets exitCode = 9
ReportSavings ==
    /\ thin.pc = "stats"
    /\ \E sizes \in BOOLEAN :
          job' = <<Exit(thin, IF sizes THEN thin.exitCode ELSE 9)>>
    /\ UNCHANGED Others

NextThin ==
    \/ ParseOptions
    \/ OpenOutput
    \/ OpenInput
    \/ ScanFolder
    \/ FillTrees
    \/ CloseFiles
    \/ ReportSavings

SpecThin == InitThin /\ [][NextThin]_vars

-----------------------------------------------------------------------------
(* The track skimming of the AOD thinner on its own: one DF_ folder with   *)
(* the track tables, O2v0 and, in some files, O2trackqa (SpecSkim), or     *)
(* with O2ambiguoustrack and O2cascade (SpecTables).                       *)

\* the rows of the track tables of the skimmed folder
MaxSkim == 3

\* O2v0: no row, or one row with two tracks as prongs
SkimV0s(n) ==
    {<<>>} \cup {<<[fIndexTracks_Pos |-> pq[1], fIndexTracks_Neg |-> pq[2]]>> :
                    pq \in {x \in (0..(n - 1)) \X (0..(n - 1)) : x[1] # x[2]}}
\* O2trackqa: absent, or present with fIndexTracks of its rows
SkimQAs(n) ==
    {[hasTrackQA |-> FALSE, qa |-> <<>>]} \cup
    {[hasTrackQA |-> TRUE, qa |-> q] : q \in UNION {[0..(k - 1) -> 0..(n - 1)] : k \in 0..1}}

\* lines 376-387 for one index of a row: *idx = acceptedTracks[oldTrackIndex],
\* a negative index is unassigned
Rewritten(in, idx) == IF idx >= 0 THEN acceptedTracks(in)[idx] ELSE idx
\* fillThisEntry after the loop over indexList
RefsKept(in, idxs) ==
    \A k \in DOMAIN idxs : idxs[k] >= 0 => acceptedTracks(in)[idxs[k]] >= 0

\* indexList of a row of O2v0 and of O2trackqa
V0Refs(in, k) == <<in.v0s[k].fIndexTracks_Pos, in.v0s[k].fIndexTracks_Neg>>
QARefs(in, k) == <<in.qa[k]>>
\* the filled rows of a table with the indices they are filled with
FilledV0s(in) ==
    [k \in {r \in DOMAIN in.v0s : RefsKept(in, V0Refs(in, r))} |->
        <<Rewritten(in, V0Refs(in, k)[1]), Rewritten(in, V0Refs(in, k)[2])>>]
FilledQAs(in) ==
    [k \in {r \in DOMAIN in.qa : RefsKept(in, QARefs(in, r))} |-> <<Rewritten(in, in.qa[k])>>]
FilledAmbs(in) ==
    [i \in FilledAmb(in, <<>>) |-> <<NewIndex(in, i)>>]
\* indexList of a row of O2cascade: fIndexTracks, the bachelor
FilledCascs(in) ==
    [k \in {r \in DOMAIN in.casc : RefsKept(in, <<in.casc[r]>>)} |-> <<Rewritten(in, in.casc[k])>>]

\* the trees of the folder in the order of the loop: O2v0 is put first, the
\* others follow in the order of the sorted keys
TreeOrder == <<"v0s", "amb", "casc", "tracks", "qa">>
\* entries != outputTree->GetEntries() for a tree that is none of checkNames
Unexpected(in, t) ==
    \/ t = "v0s" /\ Size(FilledV0s(in)) # Size(in.v0s)
    \/ t = "casc" /\ Size(FilledCascs(in)) # Size(in.casc)
    \/ t = "qa" /\ Size(FilledQAs(in)) # Size(in.qa)
\* the trees that reach outputTree->Write(): those before the first break
WrittenTrees(in) ==
    {TreeOrder[n] : n \in {m \in DOMAIN TreeOrder :
                              \A j \in 1..m : ~Unexpected(in, TreeOrder[j])}}
\* a tree of the output folder: the filled rows, or nothing for a tree that is
\* not written
OutputTree(in, t, rows) == IF t \in WrittenTrees(in) THEN rows ELSE <<>>

SkimStart(in) ==
    [pc |-> "tracks", in |-> in, exitCode |-> 0, acceptedTracks |-> <<>>, onDisk |-> TRUE,
     tracks |-> {}, v0s |-> <<>>, qa |-> <<>>, amb |-> <<>>, casc |-> <<>>]
skim == job[1]

InitSkim ==
    /\ link = NewLink(TRUE, FALSE)
    /\ ru = NewRU
    /\ ret = None
    /\ last = [op |-> "init", l0 |-> link, r0 |-> ru, reads |-> <<>>, abortAt |-> -1, oob |-> <<>>]
    /\ callerIR = [bc |-> 0, orbit |-> 1]
    /\ linkOne = link
    /\ ruOne = NewRU
    /\ retOne = None
    /\ \E tracks \in TracksUpTo(MaxSkim) :
          \E v0s \in SkimV0s(Size(tracks)), q \in SkimQAs(Size(tracks)) :
              job = <<SkimStart([tracks |-> tracks, amb |-> <<>>, v0s |-> v0s, casc |-> <<>>,
                                 hasTrackQA |-> q.hasTrackQA, qa |-> q.qa])>>

\* lines 216-308: the flags of the V0 prongs and of the trackqa rows, and the
\* loop over all tracks
SelectTracks ==
    /\ skim.pc = "tracks"
    /\ job' = <<[skim EXCEPT !.pc = "trees", !.acceptedTracks = acceptedTracks(skim.in)]>>
    /\ UNCHANGED Others

\* lines 310-434: the loop over the trees of the folder, left with exitCode 30
\* at the first tree that is reduced and is none of checkNames
FillTables ==
    /\ skim.pc = "trees"
    /\ job' = <<[skim EXCEPT !.pc = "close",
                             !.exitCode = IF \E n \in DOMAIN TreeOrder : Unexpected(skim.in, TreeOrder[n])
                                          THEN 30 ELSE 0,
                             !.tracks = IF "tracks" \in WrittenTrees(skim.in)
                                        THEN FilledTracks(skim.in) ELSE {},
                             !.v0s = OutputTree(skim.in, "v0s", FilledV0s(skim.in)),
                             !.qa = OutputTree(skim.in, "qa", FilledQAs(skim.in)),
                             !.amb = OutputTree(skim.in, "amb", FilledAmbs(skim.in)),
                             !.casc = OutputTree(skim.in, "casc", FilledCascs(skim.in))]>>
    /\ UNCHANGED Others

\* lines 442-451: outputFile->Write(), Close(), and gSystem->Unlink of the
\* incomplete file if exitCode != 0
CloseOutput ==
    /\ skim.pc = "close"
    /\ job' = <<IF skim.exitCode # 0
                 THEN [skim EXCEPT !.pc = "done", !.onDisk = FALSE, !.tracks = {}, !.v0s = <<>>,
                                   !.qa = <<>>, !.amb = <<>>, !.casc = <<>>]
                 ELSE [skim EXCEPT !.pc = "done"]>>
    /\ UNCHANGED Others

NextSkim ==
    \/ SelectTracks
    \/ FillTables
    \/ CloseOutput

SpecSkim == InitSkim /\ [][NextSkim]_vars

\* folders with an O2cascade table whose bachelors are any of the tracks
InitTables ==
    /\ link = NewLink(TRUE, FALSE)
    /\ ru = NewRU
    /\ ret = None
    /\ last = [op |-> "init", l0 |-> link, r0 |-> ru, reads |-> <<>>, abortAt |-> -1, oob |-> <<>>]
    /\ callerIR = [bc |-> 0, orbit |-> 1]
    /\ linkOne = link
    /\ ruOne = NewRU
    /\ retOne = None
    /\ \E tracks \in TracksUpTo(MaxTracks) :
          \E amb \in AmbUpTo(1, Size(tracks)), v0s \in V0Tables(Size(tracks)),
             casc \in AmbUpTo(2, Size(tracks)) :
              job = <<SkimStart([tracks |-> tracks, amb |-> amb, v0s |-> v0s, casc |-> casc,
                                 hasTrackQA |-> FALSE, qa |-> <<>>])>>

SpecTables == InitTables /\ [][NextSkim]_vars

-----------------------------------------------------------------------------
(* The reports of the errors: links of every verbosity, whose checks find  *)
(* an error of one kind or another again and again.                        *)

\* the occurrences of one error kind that are followed
MaxCount == 4
\* enum Verbosity
Verbosities == Silent..VerboseRawDump
ReportedKinds == {"ErrNoRDHAtStart", "ErrPageNotStopped"}

InitReport ==
    /\ \E v \in Verbosities : link = [NewLink(TRUE, FALSE) EXCEPT !.verbosity = v]
    /\ ru = NewRU
    /\ ret = None
    /\ last = [op |-> "init", l0 |-> link, r0 |-> ru, reads |-> <<>>, abortAt |-> -1, oob |-> <<>>]
    /\ callerIR = [bc |-> 0, orbit |-> 1]
    /\ linkOne = link
    /\ ruOne = NewRU
    /\ retOne = None
    /\ job = <<>>

\* a check finds an error: statistics.errorCounts[kind]++, then
\* if (needToPrintError(statistics.errorCounts[kind])) { ...; err |= ErrorPrinted }
ReportError(kind) ==
    /\ link.statistics.errorCounts[kind] < MaxCount
    /\ LET f == Failed(link, kind, NoError)
       IN  /\ link' = f.l
           /\ job' = <<[kind |-> kind, count |-> f.l.statistics.errorCounts[kind],
                        printed |-> ErrorPrinted \subseteq f.err]>>
    /\ last' = Snapshot("error", <<>>, -1, <<>>)
    /\ UNCHANGED <<ru, ret, callerIR, linkOne, ruOne, retOne>>

NextReport == \E kind \in ReportedKinds : ReportError(kind)

SpecReport == InitReport /\ [][NextReport]_vars

-----------------------------------------------------------------------------
(* BuildTopologyDictionary: the topologies are accounted one cluster at a  *)
(* time, and setThresholdCumulative chooses the common ones.  The object   *)
(* is kept in job[1]; frequencies are kept as counts, a frequency being    *)
(* the count over mTotClusters, and cumulative is given in percent.        *)

\* the distinct topologies and the clusters of one topology
MaxTopo == 4
MaxFreq == 2
\* itsmft::CompCluster::InvalidPatternID, scaled to the topologies followed
InvalidPatternID == 3
Cumulatives == {0, 30, 50, 75, 99, 100}

NewDictionary ==
    [mTopologyMap |-> [t \in 1..MaxTopo |-> 0], mTotClusters |-> 0,
     mTopologyFrequency |-> <<>>, mNCommonTopologies |-> 0, mFrequencyThreshold |-> 0,
     outside |-> FALSE, fault |-> FALSE, op |-> "new"]
dict == job[1]

InitTopo ==
    /\ link = NewLink(TRUE, FALSE)
    /\ ru = NewRU
    /\ ret = None
    /\ last = [op |-> "init", l0 |-> link, r0 |-> ru, reads |-> <<>>, abortAt |-> -1, oob |-> <<>>]
    /\ callerIR = [bc |-> 0, orbit |-> 1]
    /\ linkOne = link
    /\ ruOne = NewRU
    /\ retOne = None
    /\ job = <<NewDictionary>>

\* mTotClusters++ and countsTotal++ of the cluster's topology
accountTopology(d, t) ==
    [d EXCEPT !.mTopologyMap[t] = @ + 1, !.mTotClusters = @ + 1, !.op = "account"]

\* the counts of the accounted topologies, sorted by std::sort with
\* couple1.first > couple2.first
RECURSIVE SortedCounts(_, _)
SortedCounts(map, c) ==
    IF c = 0 THEN <<>>
    ELSE [i \in 1..Cardinality({t \in DOMAIN map : map[t] = c}) |-> c] \o SortedCounts(map, c - 1)

\* cumulative <= 0. || cumulative >= 1. gives 0.99
Cumulative(c) == IF c <= 0 \/ c >= 100 THEN 99 ELSE c

\* totFreq < cumulative for totFreq = tot / mTotClusters and cumulative = cum / 100
BelowCumulative(tot, cum, n) == tot * 100 < cum * n

\* the loop over mTopologyFrequency from its element i on: totFreq (as tot) and
\* mNCommonTopologies (as n) when it is left
RECURSIVE CumulativeLoop(_, _, _, _, _)
CumulativeLoop(d, cum, i, tot, n) ==
    IF i > Len(d.mTopologyFrequency) THEN n
    ELSE IF ~BelowCumulative(tot + d.mTopologyFrequency[i], cum, d.mTotClusters) THEN n
    ELSE IF n + 1 >= InvalidPatternID THEN CumulativeLoop(d, cum, i + 1, tot, n)
    ELSE CumulativeLoop(d, cum, i + 1, tot + d.mTopologyFrequency[i], n + 1)

\* the element of mTopologyFrequency with the C++ index idx, if there is one
InVector(d, idx) == idx >= 0 /\ idx < Len(d.mTopologyFrequency)
\* the while loop: mNCommonTopologies-- as long as the element has the
\* frequency of the threshold; the index where it stops, or -1 when it has
\* left the vector
RECURSIVE SameFrequencyDown(_, _, _)
SameFrequencyDown(d, idx, thr) ==
    IF ~InVector(d, idx) THEN -1
    ELSE IF d.mTopologyFrequency[idx + 1] = thr THEN SameFrequencyDown(d, idx - 1, thr)
    ELSE idx

\* the index of the element whose frequency becomes mFrequencyThreshold in
\* the last statement, -1 when an index has left the vector before
LastCommon(d, n) ==
    IF ~InVector(d, n - 1) THEN -1
    ELSE SameFrequencyDown(d, n - 1, d.mTopologyFrequency[n])

\* setThresholdCumulative with its reads inside mTopologyFrequency
ThresholdSet(d, idx) ==
    [d EXCEPT !.mFrequencyThreshold = d.mTopologyFrequency[idx + 1],
              !.mNCommonTopologies = idx + 1]
\* setThresholdCumulative after a read of mTopologyFrequency[index] with the
\* index below 0 (as unsigned int: above the size): the read faults, or it
\* gives some value and the while loop goes on for k more elements; a negative
\* mNCommonTopologies stands for the unsigned int of the same bits
ThresholdOutside(d, k, fault) ==
    [d EXCEPT !.mFrequencyThreshold = 0, !.mNCommonTopologies = 0 - k,
              !.outside = TRUE, !.fault = fault]

setThresholdCumulative(d, cumulative, k, fault) ==
    LET sorted == [d EXCEPT !.mTopologyFrequency = SortedCounts(d.mTopologyMap, MaxFreq),
                            !.op = "cumulative", !.outside = FALSE, !.fault = FALSE]
        idx == LastCommon(sorted, CumulativeLoop(sorted, Cumulative(cumulative), 1, 0, 0))
    IN  IF idx >= 0 THEN ThresholdSet(sorted, idx) ELSE ThresholdOutside(sorted, k, fault)

AccountTopology(t) ==
    /\ ~dict.fault
    /\ dict.mTopologyMap[t] < MaxFreq
    /\ job' = <<accountTopology(dict, t)>>
    /\ UNCHANGED Others

SetThresholdCumulative(cumulative) ==
    /\ ~dict.fault
    /\ dict.mTotClusters > 0
    /\ \E k \in 0..MaxOOB, fault \in BOOLEAN :
          job' = <<setThresholdCumulative(dict, cumulative, IF fault THEN 0 ELSE k, fault)>>
    /\ UNCHANGED Others

NextTopo ==
    \/ \E t \in 1..MaxTopo : AccountTopology(t)
    \/ \E cumulative \in Cumulatives : SetThresholdCumulative(cumulative)

SpecTopo == InitTopo /\ [][NextTopo]_vars

-----------------------------------------------------------------------------
(* Properties.  last holds the link and the readout unit as they were when *)
(* the last operation began, and for a call of collectROFCableData the     *)
(* words it interpreted; link, ru and ret are what the operation left.     *)

AfterCollect == last.op = "collect"
Returned == AfterCollect /\ Alive
IsPrefix(s, t) == Len(s) <= Len(t) /\ SubSeq(t, 1, Len(s)) = s
TotalChunks(r) == Len(r.cableData[0]) + Len(r.cableData[1])
\* the Data words the call interpreted, by what the cable id maps to
DataReads == {i \in DOMAIN last.reads : last.reads[i].role = "data" /\ isData(last.reads[i].w)}
UnmappedReads == {i \in DataReads : cableHW2SW(last.reads[i].w.cable) = NoCable}
MappedReads == DataReads \ UnmappedReads
SameCursor == link.dataOffset = last.l0.dataOffset /\ link.rawData = last.l0.rawData

\* C2: a call entered with rofJumpWasSeen returns CachedDataExist at once; the
\* cursor, ir, the lane bitmaps, the statistics and every cable buffer are as before.
C2_CachedDataExistAtOnce ==
    (AfterCollect /\ last.l0.rofJumpWasSeen) =>
        /\ ret = CachedDataExist
        /\ last.reads = <<>>
        /\ SameCursor
        /\ link.ir = last.l0.ir
        /\ link.lanesActive = last.l0.lanesActive /\ link.lanesStop = last.l0.lanesStop
        /\ link.lanesTimeOut = last.l0.lanesTimeOut /\ link.lanesWithData = last.l0.lanesWithData
        /\ link.statistics = last.l0.statistics
        /\ ru.cableData = last.r0.cableData
\* the call was made with the flag set while a page was still unread
C2_Witness ==
    /\ AfterCollect /\ last.l0.rofJumpWasSeen
    /\ SGhasCurrent(last.l0.rawData)
    /\ ret = CachedDataExist

\* C3: when a check of the call gives a result with the Abort bit, no further
\* word is interpreted, rawData is marked done and the call returns
\* AbortedOnError, the status field being AbortedOnError too.
C3_AbortStopsCall ==
    (AfterCollect /\ last.abortAt # -1) =>
        /\ Len(last.reads) = last.abortAt
        /\ ~SGhasCurrent(link.rawData)
        /\ ret = AbortedOnError
        /\ link.status = AbortedOnError
\* a check gave Abort on the first of two unread pages
C3_Witness ==
    /\ AfterCollect /\ last.abortAt # -1
    /\ last.l0.rawData.cur = 0 /\ Len(last.l0.rawData.pieces) = 2
    /\ ret = AbortedOnError

\* C5: each Data word with an unmapped cable id adds one to the counter of the
\* wrong cable ids and no chunk to any cable buffer, and the call goes on with
\* the word after it.
C5_UnmappedCableSkipped ==
    AfterCollect =>
        /\ link.statistics.errorCounts["ErrWrongeCableID"] =
               last.l0.statistics.errorCounts["ErrWrongeCableID"] + Cardinality(UnmappedReads)
        /\ TotalChunks(ru) = TotalChunks(last.r0) + Cardinality(MappedReads)
        /\ ~ru.corrupt
        /\ Alive => \A i \in UnmappedReads :
               /\ i < Len(last.reads)
               /\ last.reads[i + 1].pi = last.reads[i].pi
               /\ last.reads[i + 1].off = last.reads[i].off + last.l0.wordLength
\* a call met a Data word with an unmapped cable id, and a mapped one after it
C5_Witness ==
    /\ Returned
    /\ UnmappedReads # {}
    /\ \E i \in UnmappedReads, j \in MappedReads : i < j

\* C9: after a call, whatever it returned, what each cable buffer held before
\* the call is a prefix of what it holds now.
C9_CableBuffersAppendOnly ==
    AfterCollect => \A c \in DOMAIN ru.cableData : IsPrefix(last.r0.cableData[c], ru.cableData[c])
\* a call added to a cable buffer that already held a chunk
C9_Witness ==
    /\ AfterCollect
    /\ \E c \in DOMAIN ru.cableData :
          /\ last.r0.cableData[c] # <<>>
          /\ Len(ru.cableData[c]) > Len(last.r0.cableData[c])

FiveStatuses == {AbortedOnError, StoppedOnEndOfData, DataSeen, Recovery, CachedDataExist}
LastRead == last.reads[Len(last.reads)]
TrailerDoneLast == last.reads # <<>> /\ LastRead.role = "trailer" /\ LastRead.w.pdone
TrailerOpenLast == last.reads # <<>> /\ LastRead.role = "trailer" /\ ~LastRead.w.pdone
TrailerOpenRead == \E i \in DOMAIN last.reads : last.reads[i].role = "trailer" /\ ~last.reads[i].w.pdone
\* the cached input was exhausted while a packet was open
ExhaustedOpen == ~SGhasCurrent(link.rawData) /\ TrailerOpenRead
\* the payload loop met the page-alignment padding: the cursor is at the end of the page
PaddingEnded ==
    /\ ~link.expectPadding
    /\ link.dataOffset = link.lastPageSize
    /\ last.reads # <<>> /\ LastRead.role # "trailer"
\* every read of the call stayed in its page
NoOutsideRead == last.oob = <<>>
\* the cursor is at or after the end of the last cached page
CursorAtEnd ==
    \/ ~SGhasCurrent(link.rawData)
    \/ link.rawData.cur = Len(link.rawData.pieces) - 1 /\ link.dataOffset >= PieceSize(link)

C8_NeverNone ==
    Returned => (ret \in FiveStatuses /\ link.status \in FiveStatuses)

\* C4: when the cached input ends before a trailer with packetDone for a packet
\* whose Data words were read, the call returns DataSeen, the Data words stay in
\* the cable buffers and exactly one missing packet done is recorded.
C4_MissingPacketDoneRecorded ==
    ( /\ Returned /\ last.abortAt = -1 /\ NoOutsideRead
      /\ DataReads # {}
      /\ \A i \in DOMAIN last.reads : ~(last.reads[i].role = "trailer" /\ last.reads[i].w.pdone)
      /\ CursorAtEnd ) =>
        /\ ret = DataSeen
        /\ TotalChunks(ru) = TotalChunks(last.r0) + Cardinality(MappedReads)
        /\ link.statistics.errorCounts["ErrPacketDoneMissing"] =
               last.l0.statistics.errorCounts["ErrPacketDoneMissing"] + 1

RECURSIVE ChunksFor(_, _)
ChunksFor(ds, c) ==
    IF ds = <<>> THEN <<>>
    ELSE (IF cableHW2SW(Head(ds).cable) = c THEN <<Head(ds).pl>> ELSE <<>>) \o ChunksFor(Tail(ds), c)
\* the Data words of a well-formed page
DataOf(p) == SubSeq(p.words, 3, Len(p.words) - 1)
FirstPageOf(l) == l.rawData.pieces[1]

\* C1: one call on a well-formed page with N Data words of mapped cable ids adds
\* exactly N chunks, each to the buffer of the cable its id maps to and in the
\* order of the Data words, and returns DataSeen.
C1_WellFormedPageDecoded ==
    (AfterCollect /\ last.l0.dataOffset = 0 /\ SGhasCurrent(last.l0.rawData)) =>
        /\ ret = DataSeen
        /\ TotalChunks(ru) = TotalChunks(last.r0) + Len(DataOf(FirstPageOf(last.l0)))
        /\ \A c \in DOMAIN ru.cableData :
               ru.cableData[c] = last.r0.cableData[c] \o ChunksFor(DataOf(FirstPageOf(last.l0)), c)
\* the page held as many Data words as the bound lets it, for both cables
C1_Witness ==
    /\ AfterCollect /\ ret = DataSeen
    /\ last.l0.dataOffset = 0
    /\ TotalChunks(ru) = MaxData
    /\ \A c \in DOMAIN ru.cableData : ru.cableData[c] # <<>>

\* C6: a packet split over two pages gives every cable buffer the content, and
\* the call the DataSeen, that the same packet on one page gives.
C6_SplitEqualsSinglePage ==
    (AfterCollect /\ job # <<>>) =>
        /\ ret = DataSeen /\ retOne = DataSeen
        /\ ru.cableData = ruOne.cableData

\* every word of every cached page was consumed: nothing is cached, or the cursor
\* is past the pages, or the last page was entered through its RDH and the
\* cursor is at or after the end of its words
NoUnreadData(l) ==
    \/ ~SGhasCurrent(l.rawData)
    \/ /\ l.rawData.cur = Len(l.rawData.pieces) - 1
       /\ l.lastRDH = <<CurRDH(l)>> /\ l.lastPageSize = PieceSize(l)
       /\ l.dataOffset >= WordsEnd(l)

\* C11: a call made with rofJumpWasSeen false on a link without unread cached
\* data returns StoppedOnEndOfData, adds nothing to any cable buffer and records
\* no error.
C11_StoppedOnEndOfData ==
    (AfterCollect /\ ~last.l0.rofJumpWasSeen /\ NoUnreadData(last.l0)) =>
        /\ ret = StoppedOnEndOfData
        /\ ru.cableData = last.r0.cableData
        /\ link.statistics.errorCounts = last.l0.statistics.errorCounts

LaneClosedAt(lane) ==
    {j \in DOMAIN last.reads :
        /\ last.reads[j].role = "trailer" /\ isDataTrailer(last.reads[j].w)
        /\ lane \in (last.reads[j].w.stops \cup last.reads[j].w.louts)}
\* a Header or Trigger word was consumed between the reads j and i of the call
ReopenedBetween(j, i) ==
    \E h \in (j + 1)..(i - 1) : last.reads[h].role \in {"header", "trig"}

\* C13: once a lane is in lanesStop or lanesTimeOut, no Data word of that lane is
\* added to a cable buffer until the next Header word was consumed (a Trigger
\* word, which empties lanesStop, is taken as reopening the lane too).
C13_NoDataForClosedLane ==
    AfterCollect =>
        \A i \in MappedReads :
            /\ \A j \in LaneClosedAt(cableHW2Pos(last.reads[i].w.cable)) :
                   j < i => ReopenedBetween(j, i)
            /\ cableHW2Pos(last.reads[i].w.cable)
                    \in (last.l0.lanesStop \cup last.l0.lanesTimeOut) => ReopenedBetween(0, i)

\* the errors the call counted, by kind
Counted(kind) == link.statistics.errorCounts[kind] - last.l0.statistics.errorCounts[kind]
RecoverableKinds == {"ErrInvalidActiveLanes", "ErrWrongeCableID", "ErrPacketDoneMissing"}
\* the Header words the call consumed whose lanes are not as many as the cables
MismatchedHeaders ==
    {i \in DOMAIN last.reads :
        /\ last.reads[i].role = "header" /\ isDataHeader(last.reads[i].w)
        /\ Cardinality(last.reads[i].w.lanes) # getCablesOnRUType}
\* the call went on in the page after the read i
WentOnAfter(i) ==
    \/ /\ i < Len(last.reads)
       /\ last.reads[i + 1].pi = last.reads[i].pi
       /\ last.reads[i + 1].off = last.reads[i].off + last.l0.wordLength
    \/ /\ i = Len(last.reads)
       /\ link.rawData.cur >= last.reads[i].pi
       /\ link.dataOffset >= last.reads[i].off + last.l0.wordLength

\* the kinds for which the check answers Abort
AbortKinds == {"ErrNoRDHAtStart", "ErrMissingGBTHeader", "ErrMissingGBTTrigger",
               "ErrMissingDiagnosticWord", "ErrMissingGBTTrailer"}

\* C14: a call that counts lane-count mismatches, wrong cable ids or a missing
\* packet-done, and no error of a kind that answers Abort, does not return
\* AbortedOnError, keeps the cached pages and goes on after the Header or Data
\* word in question.
C14_RecoverableErrors ==
    (Returned /\ \A k \in AbortKinds : Counted(k) = 0) =>
        /\ ret # AbortedOnError /\ link.status # AbortedOnError
        /\ last.abortAt = -1
        /\ link.rawData.pieces = last.l0.rawData.pieces
        /\ \A i \in MismatchedHeaders \cup UnmappedReads : WentOnAfter(i)
\* the link has counted each of the three and no error that answers Abort, and
\* the call that counted the missing packet-done returned DataSeen
C14_Witness ==
    /\ Returned /\ \A k \in AbortKinds : link.statistics.errorCounts[k] = 0
    /\ \A k \in RecoverableKinds : link.statistics.errorCounts[k] > 0
    /\ Counted("ErrPacketDoneMissing") > 0
    /\ ret = DataSeen

CursorLE(p1, o1, p2, o2) == p1 < p2 \/ (p1 = p2 /\ o1 <= o2)
CursorLT(p1, o1, p2, o2) == p1 < p2 \/ (p1 = p2 /\ o1 < o2)
ReadsInOrder ==
    \A i, j \in DOMAIN last.reads :
        i < j => CursorLT(last.reads[i].pi, last.reads[i].off, last.reads[j].pi, last.reads[j].off)

\* C16: over a call the pair (index of the current page, dataOffset) does not
\* decrease, and the words the call interprets lie in increasing order between
\* the cursor before and the cursor after the call: no word is interpreted twice.
C16_CursorNeverBackwards ==
    (Returned /\ NoOutsideRead) =>
        /\ CursorLE(last.l0.rawData.cur, last.l0.dataOffset, link.rawData.cur, link.dataOffset)
        /\ ReadsInOrder
        /\ \A i \in DOMAIN last.reads :
              /\ CursorLE(last.l0.rawData.cur, last.l0.dataOffset,
                          last.reads[i].pi, last.reads[i].off)
              /\ CursorLT(last.reads[i].pi, last.reads[i].off,
                          link.rawData.cur, link.dataOffset)

\* C17: with two links of one unit carrying disjoint cables, each cable buffer of
\* the unit holds, after any interleaving of the calls, what the link of that
\* cable puts there when it decodes alone into a unit of its own.
C17_InterleavingIndependent ==
    /\ ru.cableData[0] = ruOne.cableData[0]
    /\ ru.cableData[1] = SoloOne.cableData[1]
    /\ ruOne.cableData[1] = <<>> /\ SoloOne.cableData[0] = <<>>
    /\ \A c \in {0, 1} : ru.cableLinkID[c] \in {c, NoCable}
\* both links have decoded data into the unit, linkOne before link was done
C17_Witness ==
    /\ last.op = "collect" /\ ret = DataSeen
    /\ Len(ru.cableData[0]) >= 2 /\ Len(ru.cableData[1]) >= 2
    /\ retOne = DataSeen

\* the trees of the folder were filled
TreesFilled ==
    /\ thin.pc \in {"close", "stats", "exit"} /\ thin.created
    /\ thin.exitCode \in {0, 5}
    /\ thin.pc = "exit" => thin.returned \in {0, 5, 9}

\* C18: a row of the ambiguous-track table that points to a track is dropped
\* exactly when that track has a collision.
C18_AmbiguousDroppedIffCollision ==
    TreesFilled =>
        \A i \in DOMAIN thin.in.amb :
            thin.in.amb[i] >= 0 =>
                ((i \notin thin.keptAmb) <=> (thin.in.tracks[thin.in.amb[i]].fIndexCollisions >= 0))

\* C19: when main returns a failure code after it created the output file, the
\* file is no longer on disk.
C19_FailureRemovesOutput ==
    (thin.pc = "exit" /\ thin.returned # 0 /\ thin.created) => ~thin.onDisk

\* the cable buffers and the three cable records of the unit are as before
CablesUntouched ==
    /\ ru.cableData = last.r0.cableData
    /\ ru.cableHWID = last.r0.cableHWID
    /\ ru.cableLinkID = last.r0.cableLinkID
    /\ ru.cableLinkPtr = last.r0.cableLinkPtr

\* C20: when the result of checkErrorsGBTDataID or of checkErrorsCableID for a
\* Data word has the Skip bit, alone or with Warning, no chunk is added to a
\* cable buffer and the cable records are unchanged.
C20_SkipBitDropsWord ==
    (job[1].done /\ (Skip \subseteq job[1].errID \/ Skip \subseteq job[1].errCable)) =>
        CablesUntouched

\* the page pi of a read was entered through its RDH: in this call (it is a later
\* page than the one the call started on, or the call started at offset 0), or
\* by an earlier call that did not abort and left its RDH as lastRDH
WordRoles == {"header", "trig", "data", "trailer"}
EnteredThroughRDH(pi) ==
    \/ pi > last.l0.rawData.cur
    \/ last.l0.dataOffset = 0
    \/ /\ last.l0.status # AbortedOnError
       /\ last.l0.lastRDH = <<last.l0.rawData.pieces[pi + 1].rdh>>

PayloadReads ==
    {i \in DOMAIN last.reads :
        /\ last.reads[i].role \in {"trig", "data"}
        /\ last.reads[i].pi < Len(last.l0.rawData.pieces)}
PageOfRead(i) == last.l0.rawData.pieces[last.reads[i].pi + 1]
\* the first word after the RDH of the page of read i was consumed as its Header:
\* earlier in this call, or by the earlier call that entered the page
HeaderConsumed(i) ==
    \/ \E j \in 1..(i - 1) :
          /\ last.reads[j].role = "header"
          /\ last.reads[j].pi = last.reads[i].pi
          /\ last.reads[j].off = RDHSize
    \/ /\ last.reads[i].pi = last.l0.rawData.cur
       /\ last.l0.dataOffset > RDHSize
       /\ last.l0.status # AbortedOnError
       /\ last.l0.lastRDH = <<PageOfRead(i).rdh>>
\* lanesActive when read i was made: the lanes of the last Header consumed before
\* it in the call, or those the call started with
LanesActiveAt(i) ==
    LET hs == {j \in 1..(i - 1) : last.reads[j].role = "header"}
    IN  IF hs = {} THEN last.l0.lanesActive
        ELSE last.reads[CHOOSE j \in hs : \A k \in hs : k <= j].w.lanes

\* C22: before a Trigger or Data word of a page is interpreted, the first word
\* after the RDH of that page was consumed as the Header and lanesActive holds
\* the active lanes of that Header.
C22_HeaderFirst ==
    AfterCollect =>
        \A i \in PayloadReads :
            /\ HeaderConsumed(i)
            /\ LanesActiveAt(i) = PageOfRead(i).words[1].lanes

\* the Trigger words the trigger scan consumed that describe the following data
DescribingReads ==
    {i \in DOMAIN last.reads : last.reads[i].role = "trig" /\ TrigDescribes(last.reads[i].w)}
\* gbtTrg: the last of them
DescribingTrigger == last.reads[CHOOSE i \in DescribingReads : \A j \in DescribingReads : j <= i].w
FrameFields(l) == <<l.ir, l.trigger, l.lanesStop, l.lanesWithData>>

\* C23: a describing trigger with continuation set, on a link that does not
\* always parse the trigger, leaves ir, trigger, lanesStop and lanesWithData as
\* they were; any other describing trigger sets ir and trigger from its fields
\* and empties lanesStop and lanesWithData; lanesActive and lanesTimeOut stay.
C23_TriggerApplied ==
    (last.op = "trigger") =>
        /\ link.lanesActive = last.l0.lanesActive
        /\ link.lanesTimeOut = last.l0.lanesTimeOut
        /\ DescribingReads # {} =>
               IF DescribingTrigger.cont /\ ~link.alwaysParseTrigger
               THEN FrameFields(link) = FrameFields(last.l0)
               ELSE FrameFields(link) =
                        <<[bc |-> DescribingTrigger.bc, orbit |-> DescribingTrigger.orbit],
                          DescribingTrigger.tt, {}, {}>>
\* a continuation trigger left the ir, the trigger and the stopped lanes of the
\* earlier page in place
C23_Witness ==
    /\ last.op = "trigger"
    /\ DescribingReads # {} /\ DescribingTrigger.cont /\ ~link.alwaysParseTrigger
    /\ link.ir = [bc |-> 0, orbit |-> 1] /\ link.lanesStop = {0} /\ link.trigger = T1.tt

\* the reads of the call after read i
ReadsAfter(i) == {j \in DOMAIN last.reads : j > i}
\* the trigger describing the data that the call saw last has noData
NoDataTriggerLast == DescribingReads # {} /\ DescribingTrigger.noData
LastDescribing == CHOOSE i \in DescribingReads : \A j \in DescribingReads : j <= i

\* C24: a call whose describing trigger has noData returns with the status set at
\* its start (None), reads after that trigger nothing but Trigger and Calibration
\* words, and adds to the cable buffers only the Data words read before it.
C24_NoDataReturns ==
    (Returned /\ NoDataTriggerLast) =>
        /\ ret = None /\ link.status = None
        /\ last.abortAt = -1
        /\ \A j \in ReadsAfter(LastDescribing) : last.reads[j].role \in {"trig", "calib"}
        /\ TotalChunks(ru) = TotalChunks(last.r0) + Cardinality(MappedReads)
        /\ link.dataOffset = last.reads[Len(last.reads)].off + link.wordLength
\* the packet of a first page stayed open and the trigger of the next page, which
\* has a Data word and a Trailer behind it, has noData
C24_Witness ==
    /\ Returned /\ NoDataTriggerLast
    /\ MappedReads # {}
    /\ PageOfRead(LastDescribing) = PgNoDataFull
    /\ last.reads[LastDescribing].pi > last.l0.rawData.cur
    /\ ret = None

\* a Trigger word with noData = 1 and internal = 0 was consumed
IsExternalRead(rd) == rd.role = "trig" /\ ~TrigDescribes(rd.w)
ExternalReads == SelectSeq(last.reads, IsExternalRead)
PhysTriggers ==
    [i \in 1..Len(ExternalReads) |->
        [bc |-> ExternalReads[i].w.bc, orbit |-> ExternalReads[i].w.orbit, tt |-> ExternalReads[i].w.tt]]
\* ir was taken from one of the describing triggers
IRFromDescribing ==
    \E i \in DescribingReads : link.ir = [bc |-> last.reads[i].w.bc, orbit |-> last.reads[i].w.orbit]

\* C25: Trigger words with noData = 1 and internal = 0 leave ir, trigger,
\* lanesStop, lanesWithData and statistics.nTriggers to the describing trigger,
\* and a link that collects external triggers gets one PhysTrigger with the bc,
\* the orbit and the trigger type of each of them, in the order of the words.
C25_ExternalTriggers ==
    (last.op = "trigger") =>
        /\ DescribingReads = {} =>
               /\ FrameFields(link) = FrameFields(last.l0)
               /\ link.statistics.nTriggers = last.l0.statistics.nTriggers
        /\ FrameFields(link) = FrameFields(last.l0) \/ IRFromDescribing
        /\ link.statistics.nTriggers <= last.l0.statistics.nTriggers + 1
        /\ link.collectsExtTrig => link.extTrigVec = last.l0.extTrigVec \o PhysTriggers
\* two external triggers of different bc before the trigger of the frame
C25_Witness ==
    /\ last.op = "trigger"
    /\ Len(ExternalReads) = 2 /\ ExternalReads[1].w.bc # ExternalReads[2].w.bc
    /\ DescribingReads # {} /\ link.ir = [bc |-> 5, orbit |-> 1]
    /\ Len(link.extTrigVec) = 2

LaneBitmaps(l) == <<l.lanesActive, l.lanesStop, l.lanesTimeOut, l.lanesWithData>>
\* the Calibration word was consumed by the call
CalibRead == \E i \in DOMAIN last.reads : last.reads[i].role = "calib"

\* C26: the page with the Calibration word gives the calibData of that word and
\* the same status, cable buffers, ir and lane bitmaps as the page without it.
C26_CalibrationTransparent ==
    (AfterCollect /\ job # <<>> /\ BothAlive) =>
        /\ CalibRead => ru.calibData = <<CalibWord.cc>>
        /\ ret = retOne
        /\ ru.cableData = ruOne.cableData
        /\ link.ir = linkOne.ir
        /\ LaneBitmaps(link) = LaneBitmaps(linkOne)

\* the describing Trigger words read on the page of read i up to read i
DescribingUpTo(i) ==
    {j \in DescribingReads : j <= i /\ last.reads[j].pi = last.reads[i].pi}
NoDataPending(i) ==
    /\ DescribingUpTo(i) # {}
    /\ last.reads[CHOOSE j \in DescribingUpTo(i) : \A k \in DescribingUpTo(i) : k <= j].w.noData
\* the Trigger and Calibration words behind which the words of their page end,
\* the trigger describing the data, if any, announcing data
ScanEnds ==
    {i \in DOMAIN last.reads :
        /\ last.reads[i].role \in {"trig", "calib"}
        /\ last.reads[i].pi < Len(last.l0.rawData.pieces)
        /\ last.reads[i].off + link.wordLength
               = RDHSize + link.wordLength * Len(PageOfRead(i).words)
        /\ ~NoDataPending(i)}
\* the call read the words of one page only, the last one cached
OnePageCall ==
    /\ last.l0.dataOffset = 0
    /\ last.l0.rawData.cur + 1 = Len(last.l0.rawData.pieces)
    /\ \A j \in DOMAIN last.reads : last.reads[j].pi = last.l0.rawData.cur

\* C27: behind the last Trigger or Calibration word of a page the call goes on
\* with the next cached page: it does not return there, the next word it reads
\* is one of a later page, and the page itself adds no error.
C27_ScanEndMovesOn ==
    AfterCollect =>
        \A i \in ScanEnds :
            /\ Alive
            /\ link.rawData.cur > last.reads[i].pi
            /\ i < Len(last.reads) => last.reads[i + 1].pi > last.reads[i].pi
            /\ OnePageCall =>
                   /\ link.statistics.errorCounts = last.l0.statistics.errorCounts
                   /\ ret = StoppedOnEndOfData

\* a page with the stop flag in its RDH, or one that holds its RDH only
QuietPage(p) == p.rdh.stop \/ p.words = <<>>
Min(a, b) == IF a < b THEN a ELSE b
\* the stop and empty pages the call had as its current page
QuietReached ==
    {k \in last.l0.rawData.cur .. Min(link.rawData.cur, Len(last.l0.rawData.pieces) - 1) :
        QuietPage(last.l0.rawData.pieces[k + 1])}
ReadsOn(k) == {i \in DOMAIN last.reads : last.reads[i].pi = k}
\* ir as the call leaves it: of the last describing trigger it parsed, or cleared
ParsedReads ==
    {i \in DescribingReads : TriggerIsParsed(last.reads[i].w, link.alwaysParseTrigger)}

\* C28: a stop page whose RDH and diagnostic word pass their checks, and an empty
\* page, have no word interpreted as Header, Trigger, Data or Trailer (so nothing
\* is added to a cable buffer and lanesActive and ir are not assigned), and the
\* call goes on behind them.
C28_StopAndEmptyPages ==
    (AfterCollect /\ Counted("ErrMissingDiagnosticWord") = 0 /\ Counted("ErrNoRDHAtStart") = 0) =>
        \A k \in QuietReached :
            /\ link.rawData.cur > k
            /\ \A i \in ReadsOn(k) : last.reads[i].role = "diag"
            /\ QuietReached = DOMAIN last.l0.rawData.pieces =>
                   /\ link.lanesActive = last.l0.lanesActive
                   /\ link.ir = IRDummy
                   /\ ru.cableData = last.r0.cableData
                   /\ ret = StoppedOnEndOfData

\* the Data words the call added to a cable buffer after the last trigger it parsed
AddedSinceTrigger == {i \in MappedReads : \A j \in ParsedReads : j < i}

\* C29: the lane of every Data word that was added to a cable buffer since the
\* last reset of lanesWithData is in lanesWithData when the call is over.
C29_LanesWithDataSet ==
    AfterCollect =>
        \A i \in AddedSinceTrigger : cableHW2Pos(last.reads[i].w.cable) \in link.lanesWithData

\* the Trailer words the call consumed, and those of them that close a packet
TrailerReads ==
    {i \in DOMAIN last.reads : last.reads[i].role = "trailer" /\ isDataTrailer(last.reads[i].w)}
DoneTrailers(s) ==
    {i \in TrailerReads : last.reads[i].w.pdone /\ getPacketState(last.reads[i].w) = s}

\* C30: a call raises statistics.packetStates[s] by the number of Trailers with
\* packetDone and packet state s that it consumed, and by nothing else.
C30_PacketStatesCounted ==
    AfterCollect =>
        \A s \in PacketStates :
            link.statistics.packetStates[s] =
                last.l0.statistics.packetStates[s] + Cardinality(DoneTrailers(s))
\* a call that consumed a Trailer without packetDone and then one with it
C30_Witness ==
    /\ Returned /\ ret = DataSeen
    /\ \E i, j \in TrailerReads : i < j /\ ~last.reads[i].w.pdone /\ last.reads[j].w.pdone
    /\ link.statistics.packetStates[1] = last.l0.statistics.packetStates[1] + 1
    /\ link.statistics.packetStates[0] = 0

\* C31: an abort leaves the cursor behind every cached page, the page cursor
\* never moves back and a call reads no word of a page before its cursor, so no
\* call after an abort adds a Data word of a page cached before it; and the call
\* that follows an abort with no page cached in between reads nothing and
\* returns StoppedOnEndOfData.
C31_AbortDiscardsPages ==
    [][/\ link'.rawData.cur >= link.rawData.cur
       /\ IsPrefix(link.rawData.pieces, link'.rawData.pieces)
       /\ (last'.op = "collect" /\ ret' = AbortedOnError) =>
              link'.rawData.cur = Len(link'.rawData.pieces)
       /\ (last'.op = "collect") =>
              \A i \in DOMAIN last'.reads : last'.reads[i].pi >= link.rawData.cur
       /\ (last.op = "collect" /\ ret = AbortedOnError /\ last'.op = "collect") =>
              /\ ret' = StoppedOnEndOfData
              /\ last'.reads = <<>>
              /\ ru' = ru]_vars
\* after an abort on a first page a second page was cached and the next call
\* added a Data word of it
C31_Witness ==
    /\ AfterCollect /\ last.l0.status = AbortedOnError
    /\ last.l0.rawData.cur = 1 /\ Len(last.l0.rawData.pieces) = 2
    /\ MappedReads # {}
    /\ \A i \in DOMAIN last.reads : last.reads[i].pi = 1

\* C32: every call of collectROFCableData comes to an end.
C32_CallTerminates == AfterCollect => ret # Hung

\* the word of read i lies within the bytes of its page
ReadInsidePage(i) ==
    /\ last.reads[i].pi < Len(last.l0.rawData.pieces)
    /\ last.reads[i].off + link.wordLength <= PageSize(PageOfRead(i), link.expectPadding)

\* C33: a call takes no byte from outside the current page: it is not ended by a
\* read of unmapped memory, it was given no word of the memory behind the page,
\* and every word it interpreted lies inside its page.
C33_ReadsInsidePage ==
    AfterCollect =>
        /\ ret # Crashed
        /\ NoOutsideRead
        /\ \A i \in DOMAIN last.reads : ReadInsidePage(i)

AfterReport == last.op = "error"

\* C34: needToPrintError(count) is false for every count on a Silent link, true
\* for count = 1 only on a link of verbosity VerboseErrors, and true for every
\* count on a link of a higher verbosity.
C34_PrintOnFirstOnly ==
    AfterReport =>
        /\ (last.l0.verbosity = Silent) => ~job[1].printed
        /\ (last.l0.verbosity = VerboseErrors) => (job[1].printed <=> job[1].count = 1)
        /\ (last.l0.verbosity > VerboseErrors) => job[1].printed

C34_Witness ==
    /\ AfterReport
    /\ last.l0.verbosity = VerboseErrors
    /\ job[1].count = 2
    /\ ~job[1].printed
    /\ \E k \in ReportedKinds : link.statistics.errorCounts[k] = 0

Selected == skim.pc \in {"trees", "done"}
Removed == {i \in DOMAIN skim.in.tracks : skim.acceptedTracks[i] < 0}
Kept == DOMAIN skim.in.tracks \ Removed
\* the properties of the track alone: TPC clusters and nothing of ITS, TRD or TOF
TPCAlone(i) ==
    /\ skim.in.tracks[i].tpcNClsFindable > 0 /\ skim.in.tracks[i].TRDPattern = 0
    /\ skim.in.tracks[i].TOFChi2 < -1 /\ skim.in.tracks[i].ITSClusterMap = 0

\* C35: the new index of a kept track is its old index minus the number of
\* removed tracks with a smaller index; the map on the kept tracks is strictly
\* increasing and onto 0..K-1; a removed track maps to -1.
C35_NewIndexCompacts ==
    Selected =>
        /\ \A i \in Kept :
              skim.acceptedTracks[i] = i - Cardinality({j \in Removed : j < i})
        /\ \A i \in Kept : \A j \in Kept : i < j => skim.acceptedTracks[i] < skim.acceptedTracks[j]
        /\ {skim.acceptedTracks[i] : i \in Kept} = 0..(Cardinality(Kept) - 1)
        /\ \A i \in Removed : skim.acceptedTracks[i] = -1

C35_Witness ==
    /\ Selected
    /\ Size(skim.in.tracks) = 3
    /\ Removed = {0}
    /\ skim.acceptedTracks[1] = 0 /\ skim.acceptedTracks[2] = 1

Filled == skim.pc = "done"
\* the track indices of the rows of the tables other than the track tables
InputRefs ==
    [v0s |-> [k \in DOMAIN skim.in.v0s |-> V0Refs(skim.in, k)],
     qa |-> [k \in DOMAIN skim.in.qa |-> QARefs(skim.in, k)],
     amb |-> [k \in DOMAIN skim.in.amb |-> <<skim.in.amb[k]>>],
     casc |-> [k \in DOMAIN skim.in.casc |-> <<skim.in.casc[k]>>]]
Output == [v0s |-> skim.v0s, qa |-> skim.qa, amb |-> skim.amb, casc |-> skim.casc]
OtherTables == {"v0s", "qa", "amb", "casc"}
PointsToKept(refs) == \A c \in DOMAIN refs : refs[c] >= 0 => refs[c] \in Kept
\* an ambiguous-track entry that points to a track with collision is removed
CollisionRuleKeeps(refs) ==
    refs[1] >= 0 => skim.in.tracks[refs[1]].fIndexCollisions < 0
ToBeWritten(t, k) ==
    /\ PointsToKept(InputRefs[t][k])
    /\ (t = "amb") => CollisionRuleKeeps(InputRefs[t][k])
IndicesRewritten(t, k) ==
    \A c \in DOMAIN InputRefs[t][k] :
        Output[t][k][c] = IF InputRefs[t][k][c] >= 0
                          THEN skim.acceptedTracks[InputRefs[t][k][c]]
                          ELSE InputRefs[t][k][c]

\* C36: an entry of a table other than the track tables is written exactly
\* when none of its non-negative track indices refers to a removed track and,
\* in the ambiguous-track table, the collision rule keeps it; a written entry
\* has every non-negative index replaced by the new index of the track and
\* every negative index as it was.
C36_OtherTablesFollow ==
    Filled =>
        \A t \in OtherTables :
            /\ \A k \in DOMAIN InputRefs[t] : (k \in DOMAIN Output[t]) <=> ToBeWritten(t, k)
            /\ \A k \in DOMAIN Output[t] : IndicesRewritten(t, k)

\* the tracks that a V0 names as a prong, and those that a trackqa row names
Prongs == UNION {{skim.in.v0s[k].fIndexTracks_Pos, skim.in.v0s[k].fIndexTracks_Neg} :
                    k \in DOMAIN skim.in.v0s}
WithQA == {skim.in.qa[k] : k \in DOMAIN skim.in.qa}

AfterCumulative == dict.op = "cumulative"
DistinctTopologies == Cardinality({t \in DOMAIN dict.mTopologyMap : dict.mTopologyMap[t] > 0})

\* C38: setThresholdCumulative reads mTopologyFrequency inside its bounds only
\* and leaves mNCommonTopologies between 1 and the number of distinct
\* topologies, and below InvalidPatternID.
C38_CumulativeInBounds ==
    AfterCumulative =>
        /\ ~dict.outside
        /\ dict.mNCommonTopologies >= 1
        /\ dict.mNCommonTopologies <= DistinctTopologies
        /\ dict.mNCommonTopologies < InvalidPatternID

====
